---- MODULE Spec2Model ----
(***************************************************************************)
(* Query Resolution Engine of the airline Graph-RAG system (MS3).          *)
(*                                                                         *)
(* The model covers Neo4jRetriever (base_retrieve.py): normalize_entities, *)
(* get_query_for_intent, _get_specific_query, _build_fallback_query and    *)
(* run_query, together with the callers that lead from an utterance to     *)
(* run_query (LLMHandler.get_baseline_results, preprocessing.main).        *)
(*                                                                         *)
(* Representation.                                                         *)
(*   - A Python string that the code inspects character by character       *)
(*     (lower(), replace(), `in`) is a sequence of one-character strings.  *)
(*   - An entity value is a record [kind, s, n]: a str, None or an int.    *)
(*   - An entity bag (dict) is a function from its keys to values.         *)
(*   - A Cypher query text is the sequence of its whitespace-separated     *)
(*     words, split further around each `$name` placeholder, with a "\n"   *)
(*     token at each line break.  Python's None for a query is <<>>.       *)
(*   - A raised exception is a field `raised` of the result record.        *)
(***************************************************************************)
EXTENDS Naturals, Integers, Sequences, FiniteSets, TLC

VARIABLES
  pc,          \* "idle" before the request, "done" after it
  caller,      \* the entry point that served the request
  intent,      \* the intent handed to run_query / get_query_for_intent
  entities,    \* the entity bag handed to the operation
  driver,      \* self.driver: "ok", or "none" when no driver was configured
  storeCalls,  \* the execute_query calls issued to the graph store, in order
  out,         \* what run_query returned (or that it raised)
  norm1,       \* normalize_entities(entities)
  norm2,       \* normalize_entities(normalize_entities(entities))
  route,       \* what get_query_for_intent returned and how it got there
  utterance,   \* the user input handed to process_query
  proc,        \* what process_query did with it
  report       \* run_all_tests: test_result['query_results'], None until it is set

vars == << pc, caller, intent, entities, driver, storeCalls, out, norm1, norm2, route,
          utterance, proc, report >>

-----------------------------------------------------------------------------
(* Bounds of the model                                                     *)

\* largest number of keys of a raw bag handed to normalize_entities alone
MaxNormKeys == 3
\* largest number of keys of a bag handed to get_query_for_intent alone
MaxRouteKeys == 4
\* largest number of keys of a raw bag handed to run_query by a caller
MaxRawKeys == 1
\* largest number of phrases of an utterance handed to process_query
MaxPhrases == 2

-----------------------------------------------------------------------------
(* Python values                                                           *)

StrVal(s) == [kind |-> "str", s |-> s, n |-> 0]
None == [kind |-> "none", s |-> << >>, n |-> 0]
IntVal(n) == [kind |-> "int", s |-> << >>, n |-> n]
IsStr(v) == v.kind = "str"

Range(f) == { f[x] : x \in DOMAIN f }

\* dict without key k (dict.pop(k) leaves this behind)
Pop(bag, k) == [ x \in (DOMAIN bag) \ {k} |-> bag[x] ]
\* dict after `bag[k] = v`
Put(bag, k, v) == [ x \in (DOMAIN bag) \cup {k} |-> IF x = k THEN v ELSE bag[x] ]
EmptyBag == [ x \in {} |-> None ]

UpperSeq == << "A", "B", "C", "D", "E", "F", "G", "H", "I", "J", "K", "L", "M", "N", "O", "P", "Q", "R", "S", "T", "U", "V", "W", "X", "Y", "Z" >>
LowerSeq == << "a", "b", "c", "d", "e", "f", "g", "h", "i", "j", "k", "l", "m", "n", "o", "p", "q", "r", "s", "t", "u", "v", "w", "x", "y", "z" >>

\* str.lower() on one character
LowerChar(c) ==
  IF \E i \in 1..Len(UpperSeq) : UpperSeq[i] = c
  THEN LowerSeq[CHOOSE i \in 1..Len(UpperSeq) : UpperSeq[i] = c]
  ELSE c
\* str.lower()
str_lower(s) == [ i \in 1..Len(s) |-> LowerChar(s[i]) ]
\* `sub in s` for two strings
str_contains(sub, s) ==
  \E i \in 0..(Len(s) - Len(sub)) : SubSeq(s, i + 1, i + Len(sub)) = sub
\* s.replace(c, '') for a one-character c
str_remove(s, c) == SelectSeq(s, LAMBDA x : x # c)

-----------------------------------------------------------------------------
(* normalize_entities, base_retrieve.py lines 32-65                        *)

Lit ==
  [ boomer |-> << "b", "o", "o", "m", "e", "r" >>,
    millennial |-> << "m", "i", "l", "l", "e", "n", "n", "i", "a", "l" >>,
    gen_x |-> << "g", "e", "n", " ", "x" >>,
    gen_z |-> << "g", "e", "n", " ", "z" >>,
    Boomer |-> << "B", "o", "o", "m", "e", "r" >>,
    Millennial |-> << "M", "i", "l", "l", "e", "n", "n", "i", "a", "l" >>,
    Gen_X |-> << "G", "e", "n", " ", "X" >>,
    Gen_Z |-> << "G", "e", "n", " ", "Z" >>,
    premiergold |-> << "p", "r", "e", "m", "i", "e", "r", "g", "o", "l", "d" >>,
    gold |-> << "g", "o", "l", "d" >>,
    premiersilver |-> << "p", "r", "e", "m", "i", "e", "r", "s", "i", "l", "v", "e", "r" >>,
    silver |-> << "s", "i", "l", "v", "e", "r" >>,
    premierplatinum |-> << "p", "r", "e", "m", "i", "e", "r", "p", "l", "a", "t", "i", "n", "u", "m" >>,
    platinum |-> << "p", "l", "a", "t", "i", "n", "u", "m" >>,
    premier1k |-> << "p", "r", "e", "m", "i", "e", "r", "1", "k" >>,
    1k |-> << "1", "k" >>,
    nonelite |-> << "n", "o", "n", "e", "l", "i", "t", "e" >>,
    premier_gold |-> << "p", "r", "e", "m", "i", "e", "r", " ", "g", "o", "l", "d" >>,
    premier_silver |-> << "p", "r", "e", "m", "i", "e", "r", " ", "s", "i", "l", "v", "e", "r" >>,
    premier_platinum |-> << "p", "r", "e", "m", "i", "e", "r", " ", "p", "l", "a", "t", "i", "n", "u", "m" >>,
    premier_1k |-> << "p", "r", "e", "m", "i", "e", "r", " ", "1", "k" >>,
    non_elite |-> << "n", "o", "n", "-", "e", "l", "i", "t", "e" >> ]

\* The result of a step of normalize_entities: the dict so far, or an exception
\* (AttributeError: .lower() on a value that is no str).
Returned(bag) == [raised |-> FALSE, bag |-> bag]
Raised == [raised |-> TRUE, bag |-> EmptyBag]

\* Fix 1, lines 41-46: generation de-pluralization
NormalizeGeneration(clean) ==
  IF "generation" \notin DOMAIN clean THEN Returned(clean)
  ELSE IF ~IsStr(clean["generation"]) THEN Raised
  ELSE LET gen == str_lower(clean["generation"].s) IN
       Returned(
         IF str_contains(Lit.boomer, gen) THEN Put(clean, "generation", StrVal(Lit.Boomer))
         ELSE IF str_contains(Lit.millennial, gen) THEN Put(clean, "generation", StrVal(Lit.Millennial))
         ELSE IF str_contains(Lit.gen_x, gen) THEN Put(clean, "generation", StrVal(Lit.Gen_X))
         ELSE IF str_contains(Lit.gen_z, gen) THEN Put(clean, "generation", StrVal(Lit.Gen_Z))
         ELSE clean)

\* `if old in clean: clean[new] = clean.pop(old)`
RenameKey(clean, old, new) ==
  IF old \in DOMAIN clean THEN Put(Pop(clean, old), new, clean[old]) ELSE clean

\* Fix 2, lines 50-54: key mapping, one statement after the other
MapKeys(clean) ==
  LET c1 == RenameKey(clean, "origin_code", "origin")
      c2 == RenameKey(c1, "dest_code", "dest")
      c3 == RenameKey(c2, "vip_id", "record_locator")
      c4 == RenameKey(c3, "loyalty_level", "loyalty_tier")
      c5 == RenameKey(c4, "passenger_class", "class")
  IN  c5

\* Fix 3, lines 57-63: loyalty tier format
NormalizeLoyaltyTier(clean) ==
  IF "loyalty_tier" \notin DOMAIN clean THEN Returned(clean)
  ELSE IF ~IsStr(clean["loyalty_tier"]) THEN Raised
  ELSE LET tier == str_remove(str_remove(str_lower(clean["loyalty_tier"].s), "-"), " ") IN
       Returned(
         IF str_contains(Lit.premiergold, tier) \/ tier = Lit.gold
           THEN Put(clean, "loyalty_tier", StrVal(Lit.premier_gold))
         ELSE IF str_contains(Lit.premiersilver, tier) \/ tier = Lit.silver
           THEN Put(clean, "loyalty_tier", StrVal(Lit.premier_silver))
         ELSE IF str_contains(Lit.premierplatinum, tier) \/ tier = Lit.platinum
           THEN Put(clean, "loyalty_tier", StrVal(Lit.premier_platinum))
         ELSE IF str_contains(Lit.premier1k, tier) \/ tier = Lit.1k
           THEN Put(clean, "loyalty_tier", StrVal(Lit.premier_1k))
         ELSE IF str_contains(Lit.nonelite, tier)
           THEN Put(clean, "loyalty_tier", StrVal(Lit.non_elite))
         ELSE clean)

\* normalize_entities with Fix 3 run before Fix 2 (the tier is normalized before
\* loyalty_level has been renamed to loyalty_tier)
normalize_entities_tier_before_keys(raw) ==
  LET g == NormalizeGeneration(raw) IN
  IF g.raised THEN Raised
  ELSE LET t == NormalizeLoyaltyTier(g.bag) IN
       IF t.raised THEN Raised ELSE Returned(MapKeys(t.bag))

normalize_entities(raw) ==
  LET g == NormalizeGeneration(raw) IN
  IF g.raised THEN Raised
  ELSE NormalizeLoyaltyTier(MapKeys(g.bag))

-----------------------------------------------------------------------------
(* The canned templates of _get_specific_query, base_retrieve.py 104-797   *)

\* The `if intent == "search_network"` block, lines 110-230: one entry per `if ...: return` in
\* source order; `required` is the set of keys the condition tests with `in entities`.
Templates_search_network ==
  <<
    \* lines 112-119
    [required |-> {"origin", "dest", "min_delay"},
     query |->
       << "MATCH", "(o:Airport", "{station_code:", "$origin",
          "})<-[:DEPARTS_FROM]-(f:Flight)-[:ARRIVES_AT]->(d:Airport", "{station_code:", "$dest",
          "})", "\n", "MATCH", "(j:Journey)-[:ON]->(f)", "\n", "WHERE", "j.arrival_delay_minutes",
          ">=", "$min_delay", "\n", "RETURN", "f.flight_number,", "f.fleet_type_description,",
          "j.arrival_delay_minutes,", "j.feedback_ID", "\n", "ORDER", "BY",
          "j.arrival_delay_minutes", "DESC", "LIMIT", "50" >> ],
    \* lines 120-127
    [required |-> {"origin", "dest", "max_delay"},
     query |->
       << "MATCH", "(o:Airport", "{station_code:", "$origin",
          "})<-[:DEPARTS_FROM]-(f:Flight)-[:ARRIVES_AT]->(d:Airport", "{station_code:", "$dest",
          "})", "\n", "MATCH", "(j:Journey)-[:ON]->(f)", "\n", "WHERE", "j.arrival_delay_minutes",
          "<=", "$max_delay", "\n", "RETURN", "f.flight_number,", "f.fleet_type_description,",
          "j.arrival_delay_minutes,", "j.feedback_ID", "\n", "ORDER", "BY",
          "j.arrival_delay_minutes", "LIMIT", "50" >> ],
    \* lines 129-135
    [required |-> {"origin", "dest", "min_miles", "max_miles"},
     query |->
       << "MATCH", "(origin:Airport", "{station_code:", "$origin",
          "})<-[:DEPARTS_FROM]-(f:Flight)-[:ARRIVES_AT]->(dest:Airport", "{station_code:", "$dest",
          "})", "\n", "MATCH", "(j:Journey)-[:ON]->(f)", "\n", "WHERE", "j.actual_flown_miles",
          ">=", "$min_miles", "AND", "j.actual_flown_miles", "<=", "$max_miles", "\n", "RETURN",
          "DISTINCT", "f.flight_number,", "f.fleet_type_description,", "j.actual_flown_miles" >> ],
    \* lines 136-142
    [required |-> {"origin", "dest", "min_miles"},
     query |->
       << "MATCH", "(origin:Airport", "{station_code:", "$origin",
          "})<-[:DEPARTS_FROM]-(f:Flight)-[:ARRIVES_AT]->(dest:Airport", "{station_code:", "$dest",
          "})", "\n", "MATCH", "(j:Journey)-[:ON]->(f)", "\n", "WHERE", "j.actual_flown_miles",
          ">", "$min_miles", "\n", "RETURN", "DISTINCT", "f.flight_number,",
          "f.fleet_type_description,", "j.actual_flown_miles" >> ],
    \* lines 143-149
    [required |-> {"origin", "dest", "max_miles"},
     query |->
       << "MATCH", "(origin:Airport", "{station_code:", "$origin",
          "})<-[:DEPARTS_FROM]-(f:Flight)-[:ARRIVES_AT]->(dest:Airport", "{station_code:", "$dest",
          "})", "\n", "MATCH", "(j:Journey)-[:ON]->(f)", "\n", "WHERE", "j.actual_flown_miles",
          "<", "$max_miles", "\n", "RETURN", "DISTINCT", "f.flight_number,",
          "f.fleet_type_description,", "j.actual_flown_miles" >> ],
    \* lines 150-154
    [required |-> {"origin", "dest"},
     query |->
       << "MATCH", "(o:Airport", "{station_code:", "$origin",
          "})<-[:DEPARTS_FROM]-(f:Flight)-[:ARRIVES_AT]->(d:Airport", "{station_code:", "$dest",
          "})", "\n", "RETURN", "f.flight_number,", "f.fleet_type_description" >> ],
    \* lines 155-162
    [required |-> {"origin", "max_legs"},
     query |->
       << "MATCH", "(o:Airport", "{station_code:", "$origin",
          "})<-[:DEPARTS_FROM]-(f:Flight)-[:ARRIVES_AT]->(d:Airport)", "\n", "MATCH",
          "(j:Journey)-[:ON]->(f)", "\n", "WHERE", "j.number_of_legs", "<=", "$max_legs", "\n",
          "RETURN", "o.station_code", "AS", "origin,", "d.station_code", "AS", "destination,",
          "count(f)", "AS", "flight_options_count", "\n", "ORDER", "BY", "flight_options_count",
          "DESC", "LIMIT", "50" >> ],
    \* lines 163-170
    [required |-> {"origin", "dest", "max_legs"},
     query |->
       << "MATCH", "(o:Airport", "{station_code:", "$origin",
          "})<-[:DEPARTS_FROM]-(f:Flight)-[:ARRIVES_AT]->(d:Airport", "{station_code:", "$dest",
          "})", "\n", "MATCH", "(j:Journey)-[:ON]->(f)", "\n", "WHERE", "j.number_of_legs", "<=",
          "$max_legs", "\n", "RETURN", "o.station_code", "AS", "origin,", "d.station_code", "AS",
          "destination,", "count(f)", "AS", "flight_options_count", "\n", "ORDER", "BY",
          "flight_options_count", "DESC", "LIMIT", "50" >> ],
    \* lines 172-180
    [required |-> {"origin", "max_miles"},
     query |->
       << "MATCH", "(o:Airport", "{station_code:", "$origin",
          "})<-[:DEPARTS_FROM]-(f:Flight)-[:ARRIVES_AT]->(d:Airport)", "\n", "MATCH",
          "(j:Journey)-[:ON]->(f)", "\n", "WHERE", "j.actual_flown_miles", "<=", "$max_miles",
          "\n", "RETURN", "o.station_code", "AS", "origin,", "d.station_code", "AS",
          "destination,", "\n", "f.flight_number,", "j.actual_flown_miles", "\n", "ORDER", "BY",
          "j.actual_flown_miles", "LIMIT", "50" >> ],
    \* lines 182-190
    [required |-> {"origin", "min_miles"},
     query |->
       << "MATCH", "(o:Airport", "{station_code:", "$origin",
          "})<-[:DEPARTS_FROM]-(f:Flight)-[:ARRIVES_AT]->(d:Airport)", "\n", "MATCH",
          "(j:Journey)-[:ON]->(f)", "\n", "WHERE", "j.actual_flown_miles", ">=", "$min_miles",
          "\n", "RETURN", "o.station_code", "AS", "origin,", "d.station_code", "AS",
          "destination,", "\n", "f.flight_number,", "j.actual_flown_miles", "\n", "ORDER", "BY",
          "j.actual_flown_miles", "DESC", "LIMIT", "50" >> ],
    \* lines 191-196
    [required |-> {"origin"},
     query |->
       << "MATCH", "(o:Airport", "{station_code:", "$origin",
          "})<-[:DEPARTS_FROM]-(f:Flight)-[:ARRIVES_AT]->(d:Airport)", "\n", "RETURN",
          "o.station_code", "AS", "origin,", "d.station_code", "AS", "destination,", "count(f)",
          "AS", "flight_options_count", "\n", "ORDER", "BY", "flight_options_count", "DESC",
          "LIMIT", "50" >> ],
    \* lines 197-202
    [required |-> {"dest"},
     query |->
       << "MATCH", "(o:Airport)<-[:DEPARTS_FROM]-(f:Flight)-[:ARRIVES_AT]->(d:Airport",
          "{station_code:", "$dest", "})", "\n", "RETURN", "o.station_code", "AS", "origin,",
          "d.station_code", "AS", "destination,", "count(f)", "AS", "flight_options_count", "\n",
          "ORDER", "BY", "flight_options_count", "DESC", "LIMIT", "50" >> ],
    \* lines 204-212
    [required |-> {"min_miles", "max_miles"},
     query |->
       << "MATCH", "(j:Journey)-[:ON]->(f:Flight)-[:DEPARTS_FROM]->(o:Airport)", "\n", "MATCH",
          "(f)-[:ARRIVES_AT]->(d:Airport)", "\n", "WHERE", "j.actual_flown_miles", ">=",
          "$min_miles", "AND", "j.actual_flown_miles", "<=", "$max_miles", "\n", "RETURN",
          "DISTINCT", "o.station_code", "AS", "origin,", "d.station_code", "AS", "destination,",
          "\n", "f.flight_number,", "f.fleet_type_description,", "j.actual_flown_miles", "\n",
          "ORDER", "BY", "j.actual_flown_miles", "DESC", "LIMIT", "50" >> ],
    \* lines 213-221
    [required |-> {"min_miles"},
     query |->
       << "MATCH", "(j:Journey)-[:ON]->(f:Flight)-[:DEPARTS_FROM]->(o:Airport)", "\n", "MATCH",
          "(f)-[:ARRIVES_AT]->(d:Airport)", "\n", "WHERE", "j.actual_flown_miles", ">=",
          "$min_miles", "\n", "RETURN", "DISTINCT", "o.station_code", "AS", "origin,",
          "d.station_code", "AS", "destination,", "\n", "f.flight_number,",
          "f.fleet_type_description,", "j.actual_flown_miles", "\n", "ORDER", "BY",
          "j.actual_flown_miles", "DESC", "LIMIT", "50" >> ],
    \* lines 222-230
    [required |-> {"max_miles"},
     query |->
       << "MATCH", "(j:Journey)-[:ON]->(f:Flight)-[:DEPARTS_FROM]->(o:Airport)", "\n", "MATCH",
          "(f)-[:ARRIVES_AT]->(d:Airport)", "\n", "WHERE", "j.actual_flown_miles", "<=",
          "$max_miles", "\n", "RETURN", "DISTINCT", "o.station_code", "AS", "origin,",
          "d.station_code", "AS", "destination,", "\n", "f.flight_number,",
          "f.fleet_type_description,", "j.actual_flown_miles", "\n", "ORDER", "BY",
          "j.actual_flown_miles", "LIMIT", "50" >> ]
  >>

\* The `if intent == "analyze_satisfaction"` block, lines 233-304: one entry per `if ...: return` in
\* source order; `required` is the set of keys the condition tests with `in entities`.
Templates_analyze_satisfaction ==
  <<
    \* lines 235-241
    [required |-> {"loyalty_tier", "class", "min_food_satisfaction"},
     query |->
       << "MATCH", "(p:Passenger)-[:TOOK]->(j:Journey)", "\n", "WHERE", "p.loyalty_program_level",
          "=", "$loyalty_tier", "AND", "j.passenger_class", "=", "$class", "\n", "AND",
          "j.food_satisfaction_score", ">=", "$min_food_satisfaction", "\n", "RETURN",
          "avg(j.food_satisfaction_score)", "AS", "average_rating,", "count(j)", "AS",
          "total_trips" >> ],
    \* lines 242-247
    [required |-> {"loyalty_tier", "class"},
     query |->
       << "MATCH", "(p:Passenger)-[:TOOK]->(j:Journey)", "\n", "WHERE", "p.loyalty_program_level",
          "=", "$loyalty_tier", "AND", "j.passenger_class", "=", "$class", "\n", "RETURN",
          "avg(j.food_satisfaction_score)", "AS", "average_rating,", "count(j)", "AS",
          "total_trips" >> ],
    \* lines 248-255
    [required |-> {"generation", "fleet_type"},
     query |->
       << "MATCH", "(p:Passenger)-[:TOOK]->(j:Journey)-[:ON]->(f:Flight)", "\n", "WHERE",
          "p.generation", "=", "$generation", "\n", "AND", "f.fleet_type_description", "CONTAINS",
          "$fleet_type", "\n", "RETURN", "p.generation,", "f.fleet_type_description,",
          "avg(j.food_satisfaction_score)", "AS", "average_food_rating" >> ],
    \* lines 256-264
    [required |-> {"generation", "min_food_satisfaction", "max_food_satisfaction"},
     query |->
       << "MATCH", "(p:Passenger)-[:TOOK]->(j:Journey)", "\n", "WHERE", "p.generation", "=",
          "$generation", "\n", "AND", "j.food_satisfaction_score", ">=", "$min_food_satisfaction",
          "\n", "AND", "j.food_satisfaction_score", "<=", "$max_food_satisfaction", "\n", "RETURN",
          "p.generation", "AS", "generation,", "j.food_satisfaction_score,", "count(j)", "AS",
          "count", "\n", "ORDER", "BY", "j.food_satisfaction_score" >> ],
    \* lines 265-270
    [required |-> {"generation"},
     query |->
       << "MATCH", "(p:Passenger)-[:TOOK]->(j:Journey)", "\n", "WHERE", "p.generation", "=",
          "$generation", "\n", "RETURN", "p.generation", "AS", "generation,",
          "avg(j.food_satisfaction_score)", "AS", "average_food_rating" >> ],
    \* lines 271-276
    [required |-> {"loyalty_tier"},
     query |->
       << "MATCH", "(p:Passenger)-[:TOOK]->(j:Journey)", "\n", "WHERE", "p.loyalty_program_level",
          "=", "$loyalty_tier", "\n", "RETURN", "p.loyalty_program_level", "AS", "loyalty_tier,",
          "avg(j.food_satisfaction_score)", "AS", "average_food_rating" >> ],
    \* lines 278-285
    [required |-> {"min_food_satisfaction", "max_food_satisfaction"},
     query |->
       << "MATCH", "(j:Journey)", "\n", "WHERE", "j.food_satisfaction_score", ">=",
          "$min_food_satisfaction", "\n", "AND", "j.food_satisfaction_score", "<=",
          "$max_food_satisfaction", "\n", "RETURN", "j.food_satisfaction_score", "AS", "score,",
          "count(j)", "AS", "journey_count", "\n", "ORDER", "BY", "score" >> ],
    \* lines 286-292
    [required |-> {"max_food_satisfaction"},
     query |->
       << "MATCH", "(p:Passenger)-[:TOOK]->(j:Journey)-[:ON]->(f:Flight)", "\n", "WHERE",
          "j.food_satisfaction_score", "<=", "$max_food_satisfaction", "\n", "RETURN",
          "f.flight_number,", "j.food_satisfaction_score,", "p.generation,", "j.feedback_ID", "\n",
          "ORDER", "BY", "j.food_satisfaction_score", "LIMIT", "50" >> ],
    \* lines 294-303
    [required |-> {"fleet_type"},
     query |->
       << "MATCH", "(j:Journey)-[:ON]->(f:Flight)", "\n", "WHERE", "f.fleet_type_description",
          "CONTAINS", "$fleet_type", "\n", "RETURN", "f.fleet_type_description", "AS",
          "aircraft_type,", "\n", "avg(j.food_satisfaction_score)", "AS", "average_food_rating,",
          "\n", "min(j.food_satisfaction_score)", "AS", "min_food_rating,", "\n",
          "max(j.food_satisfaction_score)", "AS", "max_food_rating,", "\n", "count(j)", "AS",
          "total_journeys" >> ],
    \* lines 304-304
    [required |-> {},
     query |->
       << "MATCH", "(j:Journey)", "RETURN", "avg(j.food_satisfaction_score)", "as", "global_avg" >> ]
  >>

\* The `if intent == "analyze_delays"` block, lines 307-398: one entry per `if ...: return` in
\* source order; `required` is the set of keys the condition tests with `in entities`.
Templates_analyze_delays ==
  <<
    \* lines 309-316
    [required |-> {"origin", "dest", "min_delay"},
     query |->
       << "MATCH", "(j:Journey)-[:ON]->(f:Flight)-[:DEPARTS_FROM]->(o:Airport", "{station_code:",
          "$origin", "})", "\n", "MATCH", "(f)-[:ARRIVES_AT]->(d:Airport", "{station_code:",
          "$dest", "})", "\n", "WHERE", "j.arrival_delay_minutes", ">=", "$min_delay", "\n",
          "RETURN", "f.flight_number,", "f.fleet_type_description,", "j.arrival_delay_minutes,",
          "j.feedback_ID", "\n", "ORDER", "BY", "j.arrival_delay_minutes", "DESC", "LIMIT", "50" >> ],
    \* lines 317-324
    [required |-> {"origin", "dest", "max_delay"},
     query |->
       << "MATCH", "(j:Journey)-[:ON]->(f:Flight)-[:DEPARTS_FROM]->(o:Airport", "{station_code:",
          "$origin", "})", "\n", "MATCH", "(f)-[:ARRIVES_AT]->(d:Airport", "{station_code:",
          "$dest", "})", "\n", "WHERE", "j.arrival_delay_minutes", "<=", "$max_delay", "\n",
          "RETURN", "f.flight_number,", "f.fleet_type_description,", "j.arrival_delay_minutes,",
          "j.feedback_ID", "\n", "ORDER", "BY", "j.arrival_delay_minutes", "LIMIT", "50" >> ],
    \* lines 325-331
    [required |-> {"origin", "dest"},
     query |->
       << "MATCH", "(j:Journey)-[:ON]->(f:Flight)-[:DEPARTS_FROM]->(o:Airport", "{station_code:",
          "$origin", "})", "\n", "MATCH", "(f)-[:ARRIVES_AT]->(d:Airport", "{station_code:",
          "$dest", "})", "\n", "RETURN", "f.flight_number,", "min(j.arrival_delay_minutes)", "AS",
          "min_delay,", "\n", "max(j.arrival_delay_minutes)", "AS", "max_delay,",
          "avg(j.arrival_delay_minutes)", "AS", "avg_delay" >> ],
    \* lines 333-339
    [required |-> {"min_delay", "max_delay"},
     query |->
       << "MATCH", "(j:Journey)-[:ON]->(f:Flight)", "\n", "WHERE", "j.arrival_delay_minutes", ">=",
          "$min_delay", "AND", "j.arrival_delay_minutes", "<=", "$max_delay", "\n", "RETURN",
          "f.flight_number,", "f.fleet_type_description,", "j.arrival_delay_minutes,",
          "j.feedback_ID", "\n", "ORDER", "BY", "j.arrival_delay_minutes", "DESC", "LIMIT", "50" >> ],
    \* lines 340-346
    [required |-> {"min_delay"},
     query |->
       << "MATCH", "(j:Journey)-[:ON]->(f:Flight)", "\n", "WHERE", "j.arrival_delay_minutes", ">=",
          "$min_delay", "\n", "RETURN", "f.flight_number,", "f.fleet_type_description,",
          "j.arrival_delay_minutes,", "j.feedback_ID", "\n", "ORDER", "BY",
          "j.arrival_delay_minutes", "DESC", "LIMIT", "50" >> ],
    \* lines 347-353
    [required |-> {"max_delay"},
     query |->
       << "MATCH", "(j:Journey)-[:ON]->(f:Flight)", "\n", "WHERE", "j.arrival_delay_minutes", "<=",
          "$max_delay", "\n", "RETURN", "f.flight_number,", "f.fleet_type_description,",
          "j.arrival_delay_minutes,", "j.feedback_ID", "\n", "ORDER", "BY",
          "j.arrival_delay_minutes", "LIMIT", "50" >> ],
    \* lines 355-361
    [required |-> {"origin", "min_delay"},
     query |->
       << "MATCH", "(j:Journey)-[:ON]->(f:Flight)-[:DEPARTS_FROM]->(a:Airport", "{station_code:",
          "$origin", "})", "\n", "WHERE", "j.arrival_delay_minutes", ">=", "$min_delay", "\n",
          "RETURN", "f.flight_number,", "f.fleet_type_description,", "j.arrival_delay_minutes,",
          "j.feedback_ID,", "a.station_code", "AS", "origin", "\n", "ORDER", "BY",
          "j.arrival_delay_minutes", "DESC", "LIMIT", "50" >> ],
    \* lines 362-368
    [required |-> {"origin", "max_delay"},
     query |->
       << "MATCH", "(j:Journey)-[:ON]->(f:Flight)-[:DEPARTS_FROM]->(a:Airport", "{station_code:",
          "$origin", "})", "\n", "WHERE", "j.arrival_delay_minutes", "<=", "$max_delay", "\n",
          "RETURN", "f.flight_number,", "f.fleet_type_description,", "j.arrival_delay_minutes,",
          "j.feedback_ID,", "a.station_code", "AS", "origin", "\n", "ORDER", "BY",
          "j.arrival_delay_minutes", "LIMIT", "50" >> ],
    \* lines 369-373
    [required |-> {"origin"},
     query |->
       << "MATCH", "(j:Journey)-[:ON]->(f:Flight)-[:DEPARTS_FROM]->(a:Airport", "{station_code:",
          "$origin", "})", "\n", "RETURN", "a.station_code", "AS", "airport,",
          "min(j.arrival_delay_minutes)", "AS", "min_delay,", "max(j.arrival_delay_minutes)", "AS",
          "max_delay,", "avg(j.arrival_delay_minutes)", "AS", "avg_delay" >> ],
    \* lines 374-382
    [required |-> {"fleet_type"},
     query |->
       << "MATCH", "(j:Journey)-[:ON]->(f:Flight)", "\n", "WHERE", "f.fleet_type_description",
          "CONTAINS", "$fleet_type", "\n", "RETURN", "f.fleet_type_description", "AS",
          "aircraft_type,", "\n", "min(j.arrival_delay_minutes)", "AS", "min_delay,", "\n",
          "max(j.arrival_delay_minutes)", "AS", "max_delay,", "\n", "avg(j.arrival_delay_minutes)",
          "AS", "average_delay" >> ],
    \* lines 384-393
    [required |-> {"max_legs"},
     query |->
       << "MATCH", "(j:Journey)-[:ON]->(f:Flight)", "\n", "WHERE", "j.number_of_legs", "<=",
          "$max_legs", "\n", "RETURN", "avg(j.arrival_delay_minutes)", "AS", "avg_delay,", "\n",
          "min(j.arrival_delay_minutes)", "AS", "min_delay,", "\n", "max(j.arrival_delay_minutes)",
          "AS", "max_delay,", "\n", "count(j)", "AS", "total_journeys,", "\n", "'Direct",
          "Flights'", "AS", "flight_type" >> ],
    \* lines 394-398
    [required |-> {},
     query |->
       << "MATCH", "(j:Journey)-[:ON]->(f:Flight)", "\n", "RETURN", "f.fleet_type_description",
          "AS", "aircraft_type,", "avg(j.arrival_delay_minutes)", "AS", "average_delay", "\n",
          "ORDER", "BY", "average_delay", "DESC", "LIMIT", "50" >> ]
  >>

\* The `if intent == "analyze_issues"` block, lines 401-440: one entry per `if ...: return` in
\* source order; `required` is the set of keys the condition tests with `in entities`.
Templates_analyze_issues ==
  <<
    \* lines 403-409
    [required |-> {"min_delay", "max_food_satisfaction"},
     query |->
       << "MATCH", "(j:Journey)-[:ON]->(f:Flight)", "\n", "WHERE", "j.arrival_delay_minutes", ">=",
          "$min_delay", "AND", "j.food_satisfaction_score", "<=", "$max_food_satisfaction", "\n",
          "RETURN", "f.flight_number,", "j.arrival_delay_minutes,", "j.food_satisfaction_score,",
          "j.feedback_ID", "\n", "ORDER", "BY", "j.arrival_delay_minutes", "DESC", "LIMIT", "50" >> ],
    \* lines 410-416
    [required |-> {"min_delay", "max_score"},
     query |->
       << "MATCH", "(j:Journey)-[:ON]->(f:Flight)", "\n", "WHERE", "j.arrival_delay_minutes", ">",
          "$min_delay", "AND", "j.food_satisfaction_score", "<=", "$max_score", "\n", "RETURN",
          "f.flight_number,", "j.arrival_delay_minutes,", "j.food_satisfaction_score,",
          "j.feedback_ID", "\n", "LIMIT", "50" >> ],
    \* lines 418-425
    [required |-> {"origin", "dest", "min_delay"},
     query |->
       << "MATCH", "(j:Journey)-[:ON]->(f:Flight)-[:DEPARTS_FROM]->(o:Airport", "{station_code:",
          "$origin", "})", "\n", "MATCH", "(f)-[:ARRIVES_AT]->(d:Airport", "{station_code:",
          "$dest", "})", "\n", "WHERE", "j.arrival_delay_minutes", ">=", "$min_delay", "\n",
          "RETURN", "f.flight_number,", "j.arrival_delay_minutes,", "j.food_satisfaction_score,",
          "j.feedback_ID,", "j.passenger_class", "\n", "ORDER", "BY", "j.arrival_delay_minutes",
          "DESC", "LIMIT", "50" >> ],
    \* lines 427-433
    [required |-> {"min_legs", "min_delay"},
     query |->
       << "MATCH", "(p:Passenger)-[:TOOK]->(j:Journey)-[:ON]->(f:Flight)", "\n", "WHERE",
          "j.number_of_legs", ">=", "$min_legs", "AND", "j.arrival_delay_minutes", ">=",
          "$min_delay", "\n", "RETURN", "p.record_locator,", "f.flight_number,",
          "j.number_of_legs,", "j.arrival_delay_minutes,", "j.feedback_ID", "\n", "ORDER", "BY",
          "j.arrival_delay_minutes", "DESC", "LIMIT", "50" >> ],
    \* lines 434-440
    [required |-> {"max_food_satisfaction"},
     query |->
       << "MATCH", "(j:Journey)-[:ON]->(f:Flight)", "\n", "WHERE", "j.food_satisfaction_score",
          "<=", "$max_food_satisfaction", "\n", "RETURN", "f.flight_number,",
          "j.arrival_delay_minutes,", "j.food_satisfaction_score,", "j.feedback_ID", "\n", "ORDER",
          "BY", "j.food_satisfaction_score", "LIMIT", "50" >> ]
  >>

\* The `if intent == "lookup_details"` block, lines 443-466: one entry per `if ...: return` in
\* source order; `required` is the set of keys the condition tests with `in entities`.
Templates_lookup_details ==
  <<
    \* lines 444-454
    [required |-> {"record_locator"},
     query |->
       << "MATCH", "(p:Passenger", "{record_locator:", "$record_locator",
          "})-[:TOOK]->(j:Journey)-[:ON]->(f:Flight)", "\n", "RETURN", "{", "\n", "passenger:",
          "properties(p),", "\n", "journey:", "properties(j),", "\n", "flight:", "properties(f)",
          "\n", "}", "AS", "full_record" >> ],
    \* lines 456-466
    [required |-> {"feedback_id"},
     query |->
       << "MATCH", "(j:Journey", "{feedback_ID:", "$feedback_id", "})", "\n", "OPTIONAL", "MATCH",
          "(p:Passenger)-[:TOOK]->(j)-[:ON]->(f:Flight)", "\n", "RETURN", "{", "\n", "journey:",
          "properties(j),", "\n", "passenger:", "properties(p),", "\n", "flight_number:",
          "f.flight_number", "\n", "}", "AS", "feedback_details" >> ]
  >>

\* The `if intent == "analyze_passengers"` block, lines 469-570: one entry per `if ...: return` in
\* source order; `required` is the set of keys the condition tests with `in entities`.
Templates_analyze_passengers ==
  <<
    \* lines 471-479
    [required |-> {"generation", "fleet_type"},
     query |->
       << "MATCH", "(p:Passenger)-[:TOOK]->(j:Journey)-[:ON]->(f:Flight)", "\n", "WHERE",
          "p.generation", "=", "$generation", "AND", "f.fleet_type_description", "CONTAINS",
          "$fleet_type", "\n", "RETURN", "p.loyalty_program_level", "AS", "loyalty_tier,",
          "count(DISTINCT", "p)", "AS", "passenger_count,", "\n", "avg(j.food_satisfaction_score)",
          "AS", "avg_satisfaction,", "\n", "f.fleet_type_description", "AS", "fleet_type", "\n",
          "ORDER", "BY", "passenger_count", "DESC" >> ],
    \* lines 481-491
    [required |-> {"generation", "min_delay", "min_legs"},
     query |->
       << "MATCH", "(p:Passenger)-[:TOOK]->(j:Journey)-[:ON]->(f:Flight)", "\n", "WHERE",
          "p.generation", "=", "$generation", "\n", "AND", "j.arrival_delay_minutes", ">=",
          "$min_delay", "\n", "AND", "j.number_of_legs", ">=", "$min_legs", "\n", "RETURN",
          "p.record_locator,", "p.loyalty_program_level,", "\n", "j.arrival_delay_minutes,",
          "j.number_of_legs,", "\n", "j.food_satisfaction_score", "\n", "ORDER", "BY",
          "j.arrival_delay_minutes", "DESC", "LIMIT", "50" >> ],
    \* lines 493-500
    [required |-> {"generation", "min_delay"},
     query |->
       << "MATCH", "(p:Passenger)-[:TOOK]->(j:Journey)", "\n", "WHERE", "p.generation", "=",
          "$generation", "AND", "j.arrival_delay_minutes", ">=", "$min_delay", "\n", "RETURN",
          "p.record_locator,", "p.loyalty_program_level,", "\n", "count(j)", "AS",
          "delayed_journeys,", "avg(j.arrival_delay_minutes)", "AS", "avg_delay", "\n", "ORDER",
          "BY", "delayed_journeys", "DESC", "LIMIT", "50" >> ],
    \* lines 502-511
    [required |-> {"class"},
     query |->
       << "MATCH", "(p:Passenger)-[:TOOK]->(j:Journey)", "\n", "WHERE", "j.passenger_class", "=",
          "$class", "\n", "RETURN", "p.generation", "AS", "generation,", "p.loyalty_program_level",
          "AS", "loyalty_tier,", "\n", "count(DISTINCT", "p)", "AS", "passenger_count,", "\n",
          "avg(j.food_satisfaction_score)", "AS", "avg_satisfaction,", "\n",
          "avg(j.arrival_delay_minutes)", "AS", "avg_delay", "\n", "ORDER", "BY",
          "passenger_count", "DESC" >> ],
    \* lines 513-520
    [required |-> {"loyalty_tier", "min_miles"},
     query |->
       << "MATCH", "(p:Passenger)-[:TOOK]->(j:Journey)", "\n", "WHERE", "p.loyalty_program_level",
          "=", "$loyalty_tier", "AND", "j.actual_flown_miles", ">=", "$min_miles", "\n", "RETURN",
          "p.record_locator,", "p.loyalty_program_level,", "p.generation,", "\n", "count(j)", "AS",
          "total_journeys,", "sum(j.actual_flown_miles)", "AS", "total_miles", "\n", "ORDER", "BY",
          "total_miles", "DESC", "LIMIT", "50" >> ],
    \* lines 521-528
    [required |-> {"loyalty_tier"},
     query |->
       << "MATCH", "(p:Passenger)-[:TOOK]->(j:Journey)", "\n", "WHERE", "p.loyalty_program_level",
          "=", "$loyalty_tier", "\n", "RETURN", "p.record_locator,", "p.generation,", "count(j)",
          "AS", "journey_count,", "\n", "avg(j.food_satisfaction_score)", "AS", "avg_satisfaction",
          "\n", "ORDER", "BY", "journey_count", "DESC", "LIMIT", "50" >> ],
    \* lines 529-537
    [required |-> {"generation", "loyalty_tier"},
     query |->
       << "MATCH", "(p:Passenger)-[:TOOK]->(j:Journey)", "\n", "WHERE", "p.generation", "=",
          "$generation", "AND", "p.loyalty_program_level", "=", "$loyalty_tier", "\n", "RETURN",
          "p.record_locator,", "count(j)", "AS", "journey_count,", "\n",
          "sum(j.actual_flown_miles)", "AS", "total_miles,", "\n",
          "avg(j.food_satisfaction_score)", "AS", "avg_satisfaction", "\n", "ORDER", "BY",
          "total_miles", "DESC", "LIMIT", "50" >> ],
    \* lines 539-546
    [required |-> {"generation", "min_miles"},
     query |->
       << "MATCH", "(p:Passenger)-[:TOOK]->(j:Journey)", "\n", "WHERE", "p.generation", "=",
          "$generation", "AND", "j.actual_flown_miles", ">=", "$min_miles", "\n", "RETURN",
          "p.record_locator,", "p.loyalty_program_level,", "\n", "count(j)", "AS",
          "total_journeys,", "sum(j.actual_flown_miles)", "AS", "total_miles", "\n", "ORDER", "BY",
          "total_miles", "DESC", "LIMIT", "50" >> ],
    \* lines 547-554
    [required |-> {"generation"},
     query |->
       << "MATCH", "(p:Passenger)-[:TOOK]->(j:Journey)", "\n", "WHERE", "p.generation", "=",
          "$generation", "\n", "RETURN", "p.loyalty_program_level", "AS", "loyalty_tier,",
          "count(DISTINCT", "p)", "AS", "passenger_count,", "\n", "avg(j.food_satisfaction_score)",
          "AS", "avg_satisfaction", "\n", "ORDER", "BY", "passenger_count", "DESC" >> ],
    \* lines 556-563
    [required |-> {"min_delay"},
     query |->
       << "MATCH", "(p:Passenger)-[:TOOK]->(j:Journey)", "\n", "WHERE", "j.arrival_delay_minutes",
          ">=", "$min_delay", "\n", "RETURN", "p.record_locator,", "p.generation,",
          "p.loyalty_program_level,", "\n", "count(j)", "AS", "delayed_journeys,",
          "avg(j.arrival_delay_minutes)", "AS", "avg_delay", "\n", "ORDER", "BY",
          "delayed_journeys", "DESC", "LIMIT", "50" >> ],
    \* lines 565-570
    [required |-> {},
     query |->
       << "MATCH", "(p:Passenger)-[:TOOK]->(j:Journey)", "\n", "RETURN", "p.generation", "AS",
          "generation,", "p.loyalty_program_level", "AS", "loyalty_tier,", "\n", "count(DISTINCT",
          "p)", "AS", "passenger_count", "\n", "ORDER", "BY", "passenger_count", "DESC" >> ]
  >>

\* The `if intent == "analyze_loyalty"` block, lines 573-608: one entry per `if ...: return` in
\* source order; `required` is the set of keys the condition tests with `in entities`.
Templates_analyze_loyalty ==
  <<
    \* lines 575-586
    [required |-> {"loyalty_tier", "generation"},
     query |->
       << "MATCH", "(p:Passenger)-[:TOOK]->(j:Journey)", "\n", "WHERE", "p.loyalty_program_level",
          "=", "$loyalty_tier", "AND", "p.generation", "=", "$generation", "\n", "RETURN",
          "p.loyalty_program_level", "AS", "loyalty_tier,", "\n", "p.generation", "AS",
          "generation,", "\n", "count(DISTINCT", "p)", "AS", "passenger_count,", "\n",
          "avg(j.food_satisfaction_score)", "AS", "avg_food_satisfaction,", "\n",
          "avg(j.arrival_delay_minutes)", "AS", "avg_delay,", "\n", "avg(j.actual_flown_miles)",
          "AS", "avg_miles,", "\n", "avg(j.number_of_legs)", "AS", "avg_legs" >> ],
    \* lines 588-598
    [required |-> {"loyalty_tier"},
     query |->
       << "MATCH", "(p:Passenger)-[:TOOK]->(j:Journey)", "\n", "WHERE", "p.loyalty_program_level",
          "=", "$loyalty_tier", "\n", "RETURN", "p.loyalty_program_level", "AS", "loyalty_tier,",
          "\n", "count(DISTINCT", "p)", "AS", "passenger_count,", "\n",
          "avg(j.food_satisfaction_score)", "AS", "avg_food_satisfaction,", "\n",
          "avg(j.arrival_delay_minutes)", "AS", "avg_delay,", "\n", "avg(j.actual_flown_miles)",
          "AS", "avg_miles,", "\n", "avg(j.number_of_legs)", "AS", "avg_legs" >> ],
    \* lines 600-608
    [required |-> {},
     query |->
       << "MATCH", "(p:Passenger)-[:TOOK]->(j:Journey)", "\n", "RETURN", "p.loyalty_program_level",
          "AS", "loyalty_tier,", "\n", "count(DISTINCT", "p)", "AS", "passenger_count,", "\n",
          "avg(j.food_satisfaction_score)", "AS", "avg_food_satisfaction,", "\n",
          "avg(j.arrival_delay_minutes)", "AS", "avg_delay,", "\n", "avg(j.number_of_legs)", "AS",
          "avg_legs", "\n", "ORDER", "BY", "passenger_count", "DESC" >> ]
  >>

\* The `if intent == "analyze_experience"` block, lines 611-695: one entry per `if ...: return` in
\* source order; `required` is the set of keys the condition tests with `in entities`.
Templates_analyze_experience ==
  <<
    \* lines 613-625
    [required |-> {"loyalty_tier", "min_food_satisfaction", "max_legs"},
     query |->
       << "MATCH", "(p:Passenger)-[:TOOK]->(j:Journey)-[:ON]->(f:Flight)", "\n", "WHERE",
          "p.loyalty_program_level", "=", "$loyalty_tier", "\n", "AND",
          "j.food_satisfaction_score", ">=", "$min_food_satisfaction", "\n", "AND",
          "j.number_of_legs", "<=", "$max_legs", "\n", "RETURN", "p.loyalty_program_level", "AS",
          "loyalty_tier,", "\n", "count(j)", "AS", "total_journeys,", "\n",
          "avg(j.food_satisfaction_score)", "AS", "avg_food_satisfaction,", "\n",
          "avg(j.arrival_delay_minutes)", "AS", "avg_delay_minutes,", "\n",
          "avg(j.actual_flown_miles)", "AS", "avg_miles,", "\n", "avg(j.number_of_legs)", "AS",
          "avg_legs" >> ],
    \* lines 627-638
    [required |-> {"loyalty_tier", "min_food_satisfaction"},
     query |->
       << "MATCH", "(p:Passenger)-[:TOOK]->(j:Journey)-[:ON]->(f:Flight)", "\n", "WHERE",
          "p.loyalty_program_level", "=", "$loyalty_tier", "\n", "AND",
          "j.food_satisfaction_score", ">=", "$min_food_satisfaction", "\n", "RETURN",
          "p.loyalty_program_level", "AS", "loyalty_tier,", "\n", "count(j)", "AS",
          "total_journeys,", "\n", "avg(j.food_satisfaction_score)", "AS",
          "avg_food_satisfaction,", "\n", "avg(j.arrival_delay_minutes)", "AS",
          "avg_delay_minutes,", "\n", "avg(j.actual_flown_miles)", "AS", "avg_miles,", "\n",
          "avg(j.number_of_legs)", "AS", "avg_legs" >> ],
    \* lines 640-651
    [required |-> {"loyalty_tier", "max_legs"},
     query |->
       << "MATCH", "(p:Passenger)-[:TOOK]->(j:Journey)-[:ON]->(f:Flight)", "\n", "WHERE",
          "p.loyalty_program_level", "=", "$loyalty_tier", "\n", "AND", "j.number_of_legs", "<=",
          "$max_legs", "\n", "RETURN", "p.loyalty_program_level", "AS", "loyalty_tier,", "\n",
          "count(j)", "AS", "total_journeys,", "\n", "avg(j.food_satisfaction_score)", "AS",
          "avg_food_satisfaction,", "\n", "avg(j.arrival_delay_minutes)", "AS",
          "avg_delay_minutes,", "\n", "avg(j.actual_flown_miles)", "AS", "avg_miles,", "\n",
          "avg(j.number_of_legs)", "AS", "avg_legs" >> ],
    \* lines 653-663
    [required |-> {"loyalty_tier"},
     query |->
       << "MATCH", "(p:Passenger)-[:TOOK]->(j:Journey)-[:ON]->(f:Flight)", "\n", "WHERE",
          "p.loyalty_program_level", "=", "$loyalty_tier", "\n", "RETURN",
          "p.loyalty_program_level", "AS", "loyalty_tier,", "\n", "count(j)", "AS",
          "total_journeys,", "\n", "avg(j.food_satisfaction_score)", "AS",
          "avg_food_satisfaction,", "\n", "avg(j.arrival_delay_minutes)", "AS",
          "avg_delay_minutes,", "\n", "avg(j.actual_flown_miles)", "AS", "avg_miles,", "\n",
          "avg(j.number_of_legs)", "AS", "avg_legs" >> ],
    \* lines 665-674
    [required |-> {"generation"},
     query |->
       << "MATCH", "(p:Passenger)-[:TOOK]->(j:Journey)-[:ON]->(f:Flight)", "\n", "WHERE",
          "p.generation", "=", "$generation", "\n", "RETURN", "p.generation", "AS", "generation,",
          "\n", "count(j)", "AS", "total_journeys,", "\n", "avg(j.food_satisfaction_score)", "AS",
          "avg_food_satisfaction,", "\n", "avg(j.arrival_delay_minutes)", "AS",
          "avg_delay_minutes,", "\n", "avg(j.actual_flown_miles)", "AS", "avg_miles" >> ],
    \* lines 676-685
    [required |-> {"class"},
     query |->
       << "MATCH", "(p:Passenger)-[:TOOK]->(j:Journey)", "\n", "WHERE", "j.passenger_class", "=",
          "$class", "\n", "RETURN", "j.passenger_class", "AS", "class,", "\n", "count(j)", "AS",
          "total_journeys,", "\n", "avg(j.food_satisfaction_score)", "AS",
          "avg_food_satisfaction,", "\n", "avg(j.arrival_delay_minutes)", "AS",
          "avg_delay_minutes,", "\n", "avg(j.actual_flown_miles)", "AS", "avg_miles" >> ],
    \* lines 687-695
    [required |-> {},
     query |->
       << "MATCH", "(p:Passenger)-[:TOOK]->(j:Journey)", "\n", "RETURN", "p.loyalty_program_level",
          "AS", "loyalty_tier,", "\n", "count(j)", "AS", "total_journeys,", "\n",
          "avg(j.food_satisfaction_score)", "AS", "avg_food_satisfaction,", "\n",
          "avg(j.arrival_delay_minutes)", "AS", "avg_delay_minutes,", "\n",
          "avg(j.actual_flown_miles)", "AS", "avg_miles", "\n", "ORDER", "BY", "total_journeys",
          "DESC" >> ]
  >>

\* The `if intent == "analyze_journeys"` block, lines 698-769: one entry per `if ...: return` in
\* source order; `required` is the set of keys the condition tests with `in entities`.
Templates_analyze_journeys ==
  <<
    \* lines 700-708
    [required |-> {"min_legs", "max_legs"},
     query |->
       << "MATCH", "(p:Passenger)-[:TOOK]->(j:Journey)-[:ON]->(f:Flight)", "\n", "WHERE",
          "j.number_of_legs", ">=", "$min_legs", "AND", "j.number_of_legs", "<=", "$max_legs",
          "\n", "RETURN", "j.feedback_ID,", "j.number_of_legs,", "j.actual_flown_miles,", "\n",
          "j.arrival_delay_minutes,", "j.food_satisfaction_score,", "\n", "p.record_locator,",
          "f.flight_number", "\n", "ORDER", "BY", "j.number_of_legs", "DESC", "LIMIT", "50" >> ],
    \* lines 709-717
    [required |-> {"min_legs"},
     query |->
       << "MATCH", "(p:Passenger)-[:TOOK]->(j:Journey)-[:ON]->(f:Flight)", "\n", "WHERE",
          "j.number_of_legs", ">=", "$min_legs", "\n", "RETURN", "j.feedback_ID,",
          "j.number_of_legs,", "j.actual_flown_miles,", "\n", "j.arrival_delay_minutes,",
          "j.food_satisfaction_score,", "\n", "p.record_locator,", "f.flight_number", "\n",
          "ORDER", "BY", "j.number_of_legs", "DESC", "LIMIT", "50" >> ],
    \* lines 718-726
    [required |-> {"max_legs"},
     query |->
       << "MATCH", "(p:Passenger)-[:TOOK]->(j:Journey)-[:ON]->(f:Flight)", "\n", "WHERE",
          "j.number_of_legs", "<=", "$max_legs", "\n", "RETURN", "j.feedback_ID,",
          "j.number_of_legs,", "j.actual_flown_miles,", "\n", "j.arrival_delay_minutes,",
          "j.food_satisfaction_score,", "\n", "p.record_locator,", "f.flight_number", "\n",
          "ORDER", "BY", "j.number_of_legs", "LIMIT", "50" >> ],
    \* lines 728-735
    [required |-> {"min_miles", "max_miles"},
     query |->
       << "MATCH", "(p:Passenger)-[:TOOK]->(j:Journey)-[:ON]->(f:Flight)", "\n", "WHERE",
          "j.actual_flown_miles", ">=", "$min_miles", "AND", "j.actual_flown_miles", "<=",
          "$max_miles", "\n", "RETURN", "j.feedback_ID,", "j.actual_flown_miles,",
          "j.number_of_legs,", "\n", "j.food_satisfaction_score,", "f.fleet_type_description",
          "\n", "ORDER", "BY", "j.actual_flown_miles", "DESC", "LIMIT", "50" >> ],
    \* lines 736-743
    [required |-> {"min_miles"},
     query |->
       << "MATCH", "(p:Passenger)-[:TOOK]->(j:Journey)-[:ON]->(f:Flight)", "\n", "WHERE",
          "j.actual_flown_miles", ">=", "$min_miles", "\n", "RETURN", "j.feedback_ID,",
          "j.actual_flown_miles,", "j.number_of_legs,", "\n", "j.food_satisfaction_score,",
          "p.generation,", "f.fleet_type_description", "\n", "ORDER", "BY", "j.actual_flown_miles",
          "DESC", "LIMIT", "50" >> ],
    \* lines 744-751
    [required |-> {"max_miles"},
     query |->
       << "MATCH", "(p:Passenger)-[:TOOK]->(j:Journey)-[:ON]->(f:Flight)", "\n", "WHERE",
          "j.actual_flown_miles", "<=", "$max_miles", "\n", "RETURN", "j.feedback_ID,",
          "j.actual_flown_miles,", "j.number_of_legs,", "\n", "j.food_satisfaction_score,",
          "p.generation,", "f.fleet_type_description", "\n", "ORDER", "BY", "j.actual_flown_miles",
          "LIMIT", "50" >> ],
    \* lines 753-760
    [required |-> {"class"},
     query |->
       << "MATCH", "(p:Passenger)-[:TOOK]->(j:Journey)", "\n", "WHERE", "j.passenger_class", "=",
          "$class", "\n", "RETURN", "j.passenger_class,", "count(j)", "AS", "journey_count,", "\n",
          "avg(j.food_satisfaction_score)", "AS", "avg_food_score,", "\n",
          "avg(j.arrival_delay_minutes)", "AS", "avg_delay" >> ],
    \* lines 762-769
    [required |-> {},
     query |->
       << "MATCH", "(j:Journey)", "\n", "RETURN", "j.passenger_class", "AS", "class,", "count(j)",
          "AS", "journey_count,", "\n", "avg(j.food_satisfaction_score)", "AS",
          "avg_satisfaction,", "\n", "avg(j.arrival_delay_minutes)", "AS", "avg_delay,", "\n",
          "avg(j.actual_flown_miles)", "AS", "avg_miles", "\n", "ORDER", "BY", "journey_count",
          "DESC" >> ]
  >>

\* The `if intent == "compare_routes"` block, lines 772-794: one entry per `if ...: return` in
\* source order; `required` is the set of keys the condition tests with `in entities`.
Templates_compare_routes ==
  <<
    \* lines 773-783
    [required |-> {"origin", "dest"},
     query |->
       << "MATCH", "(j:Journey)-[:ON]->(f:Flight)-[:DEPARTS_FROM]->(o:Airport", "{station_code:",
          "$origin", "})", "\n", "MATCH", "(f)-[:ARRIVES_AT]->(d:Airport", "{station_code:",
          "$dest", "})", "\n", "RETURN", "f.fleet_type_description", "AS", "aircraft,", "\n",
          "count(j)", "AS", "flight_count,", "\n", "avg(j.arrival_delay_minutes)", "AS",
          "avg_delay,", "\n", "avg(j.food_satisfaction_score)", "AS", "avg_food_score,", "\n",
          "avg(j.actual_flown_miles)", "AS", "avg_miles", "\n", "ORDER", "BY", "flight_count",
          "DESC" >> ],
    \* lines 784-793
    [required |-> {"origin"},
     query |->
       << "MATCH", "(j:Journey)-[:ON]->(f:Flight)-[:DEPARTS_FROM]->(o:Airport", "{station_code:",
          "$origin", "})", "\n", "MATCH", "(f)-[:ARRIVES_AT]->(d:Airport)", "\n", "RETURN",
          "d.station_code", "AS", "destination,", "\n", "count(j)", "AS", "flight_count,", "\n",
          "avg(j.arrival_delay_minutes)", "AS", "avg_delay,", "\n",
          "avg(j.food_satisfaction_score)", "AS", "avg_food_score", "\n", "ORDER", "BY",
          "flight_count", "DESC", "LIMIT", "50" >> ]
  >>

\* get_available_intents, lines 15-27
AvailableIntents ==
  { "analyze_delays", "analyze_satisfaction", "search_network", "analyze_issues",
    "lookup_details", "analyze_passengers", "analyze_journeys", "compare_routes",
    "analyze_loyalty", "analyze_experience" }

\* Python's None where a query text is expected
NoQuery == << >>

\* the chain of `if intent == ...:` blocks of _get_specific_query; an intent that
\* no block names reaches the final `return None` (line 797)
TemplatesOf(i) ==
  CASE i = "search_network" -> Templates_search_network
    [] i = "analyze_satisfaction" -> Templates_analyze_satisfaction
    [] i = "analyze_delays" -> Templates_analyze_delays
    [] i = "analyze_issues" -> Templates_analyze_issues
    [] i = "lookup_details" -> Templates_lookup_details
    [] i = "analyze_passengers" -> Templates_analyze_passengers
    [] i = "analyze_loyalty" -> Templates_analyze_loyalty
    [] i = "analyze_experience" -> Templates_analyze_experience
    [] i = "analyze_journeys" -> Templates_analyze_journeys
    [] i = "compare_routes" -> Templates_compare_routes
    [] OTHER -> << >>

\* Applies with `or` in place of `and`: one tested key is enough
Applies_any(t, bag) == \E k \in t.required : k \in DOMAIN bag

\* the condition of one `if 'a' in entities and 'b' in entities ...:`
Applies(t, bag) == \A k \in t.required : k \in DOMAIN bag

\* SpecificIndex taking the last `if` whose condition holds instead of the first
SpecificIndex_last(i, bag) ==
  LET ts == TemplatesOf(i)
      hits == { n \in 1..Len(ts) : Applies(ts[n], bag) }
  IN  IF hits = {} THEN 0 ELSE CHOOSE n \in hits : \A m \in hits : n >= m

\* the position, in source order, of the first `if` of the intent's block whose
\* condition holds (the statement that returns); 0 when control falls through
SpecificIndex(i, bag) ==
  LET ts == TemplatesOf(i)
      hits == { n \in 1..Len(ts) : Applies(ts[n], bag) }
  IN  IF hits = {} THEN 0 ELSE CHOOSE n \in hits : \A m \in hits : n <= m

\* _get_specific_query, lines 104-797
_get_specific_query(i, bag) ==
  LET n == SpecificIndex(i, bag) IN
  IF n = 0 THEN NoQuery ELSE TemplatesOf(i)[n].query

\* key_entities, lines 82-84
key_entities ==
  { "generation", "loyalty_tier", "fleet_type", "origin", "dest", "class",
    "min_delay", "max_delay", "min_miles", "max_miles", "min_legs", "max_legs",
    "min_food_satisfaction", "max_food_satisfaction" }

\* `f'${key}' in q or f'$_{key}' in q` (line 90).  The only `$` of a query text
\* start its placeholders, each of which is one token, and no placeholder of the
\* templates or of the fallback query extends another one's name, so the
\* substring test is the presence of the token.
Mentions(q, key) ==
  \E n \in 1..Len(q) : q[n] = "$" \o key \/ q[n] = "$_" \o key

\* detected_keys, line 85
detected_keys(bag) == (DOMAIN bag) \cap key_entities
\* used_entities, lines 88-91
used_entities(q, bag) == { key \in detected_keys(bag) : Mentions(q, key) }

-----------------------------------------------------------------------------
(* _build_fallback_query, base_retrieve.py lines 799-887                   *)

RECURSIVE Join(_, _)
\* sep.join(parts), each part and sep a token sequence
Join(parts, sep) ==
  IF Len(parts) = 0 THEN << >>
  ELSE IF Len(parts) = 1 THEN parts[1]
  ELSE parts[1] \o sep \o Join(Tail(parts), sep)

\* `[x] if cond else []`
When(cond, x) == IF cond THEN << x >> ELSE << >>

\* match_clauses with line 830 left out: the Flight traversal replaces the first
\* MATCH whether or not it reaches Passenger
fallback_match_clauses_flight_only(bag) ==
  LET K == DOMAIN bag
      passenger == \E k \in {"generation", "loyalty_tier"} : k \in K
      flight == \E k \in {"fleet_type", "origin", "dest"} : k \in K
      first ==
        IF flight
        THEN << "MATCH", "(j:Journey)-[:ON]->(f:Flight)" >>
        ELSE IF passenger
             THEN << "MATCH", "(p:Passenger)-[:TOOK]->(j:Journey)" >>
             ELSE << "MATCH", "(j:Journey)" >>
  IN  << first >>
      \o When(flight /\ "origin" \in K,
              << "MATCH", "(f)-[:DEPARTS_FROM]->(o:Airport", "{station_code:", "$origin", "})" >>)
      \o When(flight /\ "dest" \in K,
              << "MATCH", "(f)-[:ARRIVES_AT]->(d:Airport", "{station_code:", "$dest", "})" >>)

\* match_clauses, lines 805, 815-816, 829-833, 840-846
fallback_match_clauses(bag) ==
  LET K == DOMAIN bag
      passenger == \E k \in {"generation", "loyalty_tier"} : k \in K
      flight == \E k \in {"fleet_type", "origin", "dest"} : k \in K
      first ==
        IF flight
        THEN IF passenger
             THEN << "MATCH", "(p:Passenger)-[:TOOK]->(j:Journey)-[:ON]->(f:Flight)" >>
             ELSE << "MATCH", "(j:Journey)-[:ON]->(f:Flight)" >>
        ELSE IF passenger
             THEN << "MATCH", "(p:Passenger)-[:TOOK]->(j:Journey)" >>
             ELSE << "MATCH", "(j:Journey)" >>
  IN  << first >>
      \o When(flight /\ "origin" \in K,
              << "MATCH", "(f)-[:DEPARTS_FROM]->(o:Airport", "{station_code:", "$origin", "})" >>)
      \o When(flight /\ "dest" \in K,
              << "MATCH", "(f)-[:ARRIVES_AT]->(d:Airport", "{station_code:", "$dest", "})" >>)

\* where_clauses, in the order of the append calls (lines 819-870)
fallback_where_clauses(bag) ==
  LET K == DOMAIN bag IN
     When("generation" \in K, << "p.generation", "=", "$generation" >>)
  \o When("loyalty_tier" \in K, << "p.loyalty_program_level", "=", "$loyalty_tier" >>)
  \o When("fleet_type" \in K, << "f.fleet_type_description", "CONTAINS", "$fleet_type" >>)
  \o When("class" \in K, << "j.passenger_class", "=", "$class" >>)
  \o When("min_delay" \in K, << "j.arrival_delay_minutes", ">=", "$min_delay" >>)
  \o When("max_delay" \in K, << "j.arrival_delay_minutes", "<=", "$max_delay" >>)
  \o When("min_food_satisfaction" \in K,
          << "j.food_satisfaction_score", ">=", "$min_food_satisfaction" >>)
  \o When("max_food_satisfaction" \in K,
          << "j.food_satisfaction_score", "<=", "$max_food_satisfaction" >>)
  \o When("min_miles" \in K, << "j.actual_flown_miles", ">=", "$min_miles" >>)
  \o When("max_miles" \in K, << "j.actual_flown_miles", "<=", "$max_miles" >>)
  \o When("min_legs" \in K, << "j.number_of_legs", ">=", "$min_legs" >>)
  \o When("max_legs" \in K, << "j.number_of_legs", "<=", "$max_legs" >>)

\* return_fields left as initialized at lines 807-811: no insert, no append
fallback_return_fields_base_only(bag) ==
  << << "count(j)", "AS", "journey_count" >>,
     << "avg(j.food_satisfaction_score)", "AS", "avg_food_satisfaction" >>,
     << "avg(j.arrival_delay_minutes)", "AS", "avg_delay" >> >>

\* return_fields: the three base fields (lines 807-811), each insert(0, ...) in
\* front of what is there (so the last insert comes first), each append at the end
fallback_return_fields(bag) ==
  LET K == DOMAIN bag IN
     When("class" \in K, << "j.passenger_class", "AS", "class" >>)
  \o When("dest" \in K, << "d.station_code", "AS", "destination" >>)
  \o When("origin" \in K, << "o.station_code", "AS", "origin" >>)
  \o When("fleet_type" \in K, << "f.fleet_type_description", "AS", "fleet_type" >>)
  \o When("loyalty_tier" \in K, << "p.loyalty_program_level", "AS", "loyalty_tier" >>)
  \o When("generation" \in K, << "p.generation", "AS", "generation" >>)
  \o << << "count(j)", "AS", "journey_count" >>,
        << "avg(j.food_satisfaction_score)", "AS", "avg_food_satisfaction" >>,
        << "avg(j.arrival_delay_minutes)", "AS", "avg_delay" >> >>
  \o When(\E k \in {"min_miles", "max_miles"} : k \in K,
          << "avg(j.actual_flown_miles)", "AS", "avg_miles" >>)
  \o When(\E k \in {"min_legs", "max_legs"} : k \in K,
          << "avg(j.number_of_legs)", "AS", "avg_legs" >>)

\* _build_fallback_query without the `if where_clauses:` test of line 881
_build_fallback_query_always_where(bag) ==
  LET where_clauses == fallback_where_clauses(bag)
      query_parts ==
           << Join(fallback_match_clauses(bag), << "\n" >>) >>
        \o << << "WHERE" >> \o Join(where_clauses, << "AND" >>) >>
        \o << << "RETURN" >> \o Join(fallback_return_fields(bag), << "," >>) >>
        \o << << "ORDER", "BY", "journey_count", "DESC", "LIMIT", "50" >> >>
  IN  Join(query_parts, << "\n" >>)

\* _build_fallback_query without the WHERE clause of lines 881-882
_build_fallback_query_without_where(bag) ==
  LET query_parts ==
           << Join(fallback_match_clauses(bag), << "\n" >>) >>
        \o << << "RETURN" >> \o Join(fallback_return_fields(bag), << "," >>) >>
        \o << << "ORDER", "BY", "journey_count", "DESC", "LIMIT", "50" >> >>
  IN  Join(query_parts, << "\n" >>)

\* lines 878-887: the parts joined by newlines; ", ".join and " AND ".join put
\* the separator "," or "AND" between the fields
_build_fallback_query(bag) ==
  LET where_clauses == fallback_where_clauses(bag)
      query_parts ==
           << Join(fallback_match_clauses(bag), << "\n" >>) >>
        \o When(Len(where_clauses) > 0, << "WHERE" >> \o Join(where_clauses, << "AND" >>))
        \o << << "RETURN" >> \o Join(fallback_return_fields(bag), << "," >>) >>
        \o << << "ORDER", "BY", "journey_count", "DESC", "LIMIT", "50" >> >>
  IN  Join(query_parts, << "\n" >>)

-----------------------------------------------------------------------------
(* get_query_for_intent, base_retrieve.py lines 70-102                     *)

\* TRUE when the canned query is the one returned (line 95)
ReturnsSpecific(i, bag) ==
  LET specific_query == _get_specific_query(i, bag) IN
  /\ specific_query # NoQuery
  /\ \/ detected_keys(bag) = used_entities(specific_query, bag)
     \/ detected_keys(bag) = {}

\* get_query_for_intent without the completeness check of lines 80-99
get_query_for_intent_unchecked(i, bag) ==
  IF _get_specific_query(i, bag) # NoQuery THEN _get_specific_query(i, bag)
  ELSE _build_fallback_query(bag)

get_query_for_intent(i, bag) ==
  IF ReturnsSpecific(i, bag) THEN _get_specific_query(i, bag)
  ELSE _build_fallback_query(bag)

-----------------------------------------------------------------------------
(* The graph store (external) and result serialization, run_query 916-930  *)

\* Values of a result column as the driver hands them over: a scalar, a Node or
\* Relationship (store-native wrappers with an items() method), a dict (what a
\* Cypher map arrives as) or a list.  props maps property names to values (for
\* a list: positions to values).
Scalar(v) == [tag |-> "scalar", v |-> v, props |-> << >>]
Node(props) == [tag |-> "node", v |-> "", props |-> props]
PyDict(props) == [tag |-> "dict", v |-> "", props |-> props]
PyList(items) == [tag |-> "list", v |-> "", props |-> items]
\* a store-native value that has no items() method and is an ordinary object
\* with a __dict__ (a Path); v is its class name
PyObject(v) == [tag |-> "object", v |-> v, props |-> << >>]

\* `hasattr(value, 'items') and callable(value.items)`, line 924
has_items(value) == value.tag \in {"node", "relationship", "dict"}

\* lines 924-927: `dict(value.items())` copies the top level only
serialize_value(value) ==
  IF has_items(value) THEN PyDict(value.props) ELSE value

\* lines 918-928
serialize_records(records) ==
  [ n \in 1..Len(records) |->
      [ key \in DOMAIN records[n] |-> serialize_value(records[n][key]) ] ]

\* what driver.execute_query can answer: records, or an exception with a message
Records(rs) == [kind |-> "records", records |-> rs, msg |-> ""]
StoreError(msg) == [kind |-> "raise", records |-> << >>, msg |-> msg]

-----------------------------------------------------------------------------
(* run_query, base_retrieve.py lines 889-933                               *)

\* first component of the returned pair: a list of rows, or a message string
RowList(rows) == [kind |-> "list", rows |-> rows, text |-> << >>, names |-> {}]
Message(text, names) == [kind |-> "str", rows |-> << >>, text |-> text, names |-> names]
NoResults == [kind |-> "none", rows |-> << >>, text |-> << >>, names |-> {}]

\* line 892: `{k: v for k, v in clean_params.items() if v is not None}`
drop_none(bag) == [ k \in { x \in DOMAIN bag : bag[x] # None } |-> bag[k] ]

\* the bag run_query matches and binds (lines 891-892); normalize_entities
\* must have returned
clean_params_of(raw) == drop_none(normalize_entities(raw).bag)

\* one execute_query call (lines 910-914) with what the store answered
StoreCall(cypher_query, clean_params, answer) ==
  [query |-> cypher_query, params |-> clean_params, answer |-> answer]

\* lines 897-898: no query could be constructed
no_query_result(i, clean_params) ==
  [raised |-> FALSE,
   results |-> Message(<< "Error: Could not construct query for intent", i,
                          "with entities" >>, DOMAIN clean_params),
   query |-> NoQuery, calls |-> << >>]

\* lines 901-902: no driver
no_driver_result ==
  [raised |-> FALSE,
   results |-> Message(<< "Database Error: Driver not initialized." >>, {}),
   query |-> NoQuery, calls |-> << >>]

\* run_query without the try/except of lines 900-933: the store's exception
\* leaves run_query
store_error_propagates(cypher_query, clean_params, answer) ==
  [raised |-> TRUE, results |-> NoResults, query |-> NoQuery,
   calls |-> << StoreCall(cypher_query, clean_params, answer) >>]

\* the except branch of lines 932-933 calling execute_query a second time
\* before it gives up
store_error_retries(cypher_query, clean_params, answer) ==
  [raised |-> FALSE,
   results |-> Message(<< "Database Error:", answer.msg >>, {}),
   query |-> NoQuery,
   calls |-> << StoreCall(cypher_query, clean_params, answer),
                StoreCall(cypher_query, clean_params, answer) >>]

\* lines 932-933: `except Exception as e: return f"Database Error: {e}", None`
store_error_result(cypher_query, clean_params, answer) ==
  [raised |-> FALSE,
   results |-> Message(<< "Database Error:", answer.msg >>, {}),
   query |-> NoQuery,
   calls |-> << StoreCall(cypher_query, clean_params, answer) >>]

\* lines 910-930: the records serialized, and the query text with them
success_result(cypher_query, clean_params, answer) ==
  [raised |-> FALSE,
   results |-> RowList(serialize_records(answer.records)),
   query |-> cypher_query,
   calls |-> << StoreCall(cypher_query, clean_params, answer) >>]

\* The whole call: [raised, results, query, calls].  `calls` are the
\* execute_query calls issued; `answer` is what the store does if it is called.
run_query(i, raw, drv, answer) ==
  IF normalize_entities(raw).raised
  THEN \* line 891 is outside the try block: the exception leaves run_query
       [raised |-> TRUE, results |-> NoResults, query |-> NoQuery, calls |-> << >>]
  ELSE
    LET clean_params == clean_params_of(raw)
        cypher_query == get_query_for_intent(i, clean_params)
    IN  IF cypher_query = NoQuery THEN no_query_result(i, clean_params)
        ELSE IF drv = "none" THEN no_driver_result
        ELSE IF answer.kind = "raise"
          THEN store_error_result(cypher_query, clean_params, answer)
        ELSE success_result(cypher_query, clean_params, answer)

-----------------------------------------------------------------------------
(* The callers of run_query                                                *)

\* classify_intent, preprocessing.py lines 147-148; `answer` is the classifier's
\* reply with blanks and quotes removed
classify_intent(answer) == IF answer \in AvailableIntents THEN answer ELSE "unknown"

\* `{**entities, **parameters}`, preprocessing.py line 484, test_queries.py 213
merge(a, b) ==
  [ k \in (DOMAIN a) \cup (DOMAIN b) |-> IF k \in DOMAIN b THEN b[k] ELSE a[k] ]

-----------------------------------------------------------------------------
(* serialize_results, test_queries.py lines 145-172                        *)

\* `hasattr(value, '__dict__')`, line 164
has_dict(value) == value.tag = "object"

\* `str(value)` of an object, line 165: a string that names the class
py_str(value) == Scalar("<" \o value.v \o ">")

\* lines 161-167, one column value
serialize_result_value(value) ==
  IF has_items(value) THEN PyDict(value.props)
  ELSE IF has_dict(value) THEN py_str(value)
  ELSE value

\* the whole function; results is what run_query returned first: a list of
\* rows (each a dict, line 158), a message string (line 150) or None (line 154)
serialize_results(results) ==
  CASE results.kind = "str" -> results
    [] results.kind = "none" -> Message(<< "None" >>, {})
    [] results.kind = "list" ->
         RowList([ n \in 1..Len(results.rows) |->
                     [ key \in DOMAIN results.rows[n] |->
                         serialize_result_value(results.rows[n][key]) ] ])
-----------------------------------------------------------------------------
(* Regular expressions (Python's re.search with re.IGNORECASE), as used by  *)
(* extract_parameters_from_text, preprocessing.py lines 299-351             *)

\* A pattern is a sequence of nodes, matched left to right with backtracking
\* in the order Python tries the alternatives.
Text(s) == [op |-> "text", s |-> s]
Class(name) == [op |-> "class", name |-> name]
AnyChar == [op |-> "any"]
Alt(alts) == [op |-> "branch", alts |-> alts]
Rep(min, max, greedy, body) ==
  [op |-> "rep", min |-> min, max |-> max, greedy |-> greedy, body |-> body]
Group(idx, body) == [op |-> "group", idx |-> idx, body |-> body]
\* end of capturing group idx that was entered at position start
CloseGroup(idx, start) == [op |-> "close", idx |-> idx, start |-> start]
\* the upper limit of `*` and `+`
Unbounded == 2147483647

DigitSeq == << "0", "1", "2", "3", "4", "5", "6", "7", "8", "9" >>
IsDigit(c) == \E i \in 1..Len(DigitSeq) : DigitSeq[i] = c
\* \d and \s on the characters of the model's utterances
InClass(name, c) ==
  CASE name = "digit" -> IsDigit(c)
    [] name = "space" -> c \in {" ", "\t", "\n"}

NoMatch == [ok |-> FALSE, end |-> 0, groups |-> << >>]
\* the first of two attempts that succeeds
OrElse(first, second) == IF first.ok THEN first ELSE second

RECURSIVE re_match(_, _, _, _)
RECURSIVE re_alts(_, _, _, _, _, _)
\* the nodes matched against s from position pos on; groups holds the text of
\* the groups closed so far
re_match(nodes, s, pos, groups) ==
  IF nodes = << >> THEN [ok |-> TRUE, end |-> pos, groups |-> groups]
  ELSE
    LET n == Head(nodes)
        rest == Tail(nodes)
    IN  CASE n.op = "text" ->
               IF /\ pos + Len(n.s) - 1 <= Len(s)
                  /\ str_lower(SubSeq(s, pos, pos + Len(n.s) - 1)) = n.s
               THEN re_match(rest, s, pos + Len(n.s), groups)
               ELSE NoMatch
          [] n.op = "class" ->
               IF pos <= Len(s) /\ InClass(n.name, s[pos])
               THEN re_match(rest, s, pos + 1, groups)
               ELSE NoMatch
          [] n.op = "any" ->
               IF pos <= Len(s) /\ s[pos] # "\n"
               THEN re_match(rest, s, pos + 1, groups)
               ELSE NoMatch
          [] n.op = "branch" -> re_alts(n.alts, 1, rest, s, pos, groups)
          [] n.op = "group" ->
               re_match(n.body \o << CloseGroup(n.idx, pos) >> \o rest, s, pos, groups)
          [] n.op = "close" ->
               re_match(rest, s, pos, Put(groups, n.idx, SubSeq(s, n.start, pos - 1)))
          [] n.op = "rep" ->
               LET again ==
                     Rep(IF n.min > 0 THEN n.min - 1 ELSE 0,
                         IF n.max = Unbounded THEN Unbounded ELSE n.max - 1,
                         n.greedy, n.body)
                   more == IF n.max > 0
                           THEN re_match(n.body \o << again >> \o rest, s, pos, groups)
                           ELSE NoMatch
                   stop == IF n.min = 0 THEN re_match(rest, s, pos, groups) ELSE NoMatch
               IN  IF n.greedy THEN OrElse(more, stop) ELSE OrElse(stop, more)

\* the alternatives of a branch, tried in order from the k-th on
re_alts(alts, k, rest, s, pos, groups) ==
  IF k > Len(alts) THEN NoMatch
  ELSE OrElse(re_match(alts[k] \o rest, s, pos, groups),
              re_alts(alts, k + 1, rest, s, pos, groups))

RECURSIVE re_search_from(_, _, _)
re_search_from(pattern, s, pos) ==
  IF pos > Len(s) + 1 THEN NoMatch
  ELSE OrElse(re_match(pattern, s, pos, << >>), re_search_from(pattern, s, pos + 1))

\* re.search(pattern, s, re.IGNORECASE): the leftmost match
re_search(pattern, s) == re_search_from(pattern, s, 1)

RECURSIVE int(_)
\* int() of a string of digits
int(digits) ==
  IF digits = << >> THEN 0
  ELSE int(SubSeq(digits, 1, Len(digits) - 1)) * 10
         + ((CHOOSE i \in 1..Len(DigitSeq) : DigitSeq[i] = digits[Len(digits)]) - 1)

Pattern ==
    \* line 299: r'(?:longer|greater|more|over|above|exceeding|at least|minimum)\s*(?:than\s*)?(\d+)\s*miles?'
  [ miles_greater |->
      << Alt(<< << Text(<< "l", "o", "n", "g", "e", "r" >>) >>,
                << Text(<< "g", "r", "e", "a", "t", "e", "r" >>) >>,
                << Text(<< "m", "o", "r", "e" >>) >>,
                << Text(<< "o", "v", "e", "r" >>) >>,
                << Text(<< "a", "b", "o", "v", "e" >>) >>,
                << Text(<< "e", "x", "c", "e", "e", "d", "i", "n", "g" >>) >>,
                << Text(<< "a", "t", " ", "l", "e", "a", "s", "t" >>) >>,
                << Text(<< "m", "i", "n", "i", "m", "u", "m" >>) >> >>),
         Rep(0, Unbounded, TRUE, << Class("space") >>),
         Rep(0, 1, TRUE, << Text(<< "t", "h", "a", "n" >>), Rep(0, Unbounded, TRUE, << Class("space") >>) >>),
         Group(1, << Rep(1, Unbounded, TRUE, << Class("digit") >>) >>),
         Rep(0, Unbounded, TRUE, << Class("space") >>),
         Text(<< "m", "i", "l", "e" >>),
         Rep(0, 1, TRUE, << Text(<< "s" >>) >>) >>,
    \* line 300: r'(?:shorter|less|under|below|within|at most|maximum)\s*(?:than\s*)?(\d+)\s*miles?'
    miles_less |->
      << Alt(<< << Text(<< "s", "h", "o", "r", "t", "e", "r" >>) >>,
                << Text(<< "l", "e", "s", "s" >>) >>,
                << Text(<< "u", "n", "d", "e", "r" >>) >>,
                << Text(<< "b", "e", "l", "o", "w" >>) >>,
                << Text(<< "w", "i", "t", "h", "i", "n" >>) >>,
                << Text(<< "a", "t", " ", "m", "o", "s", "t" >>) >>,
                << Text(<< "m", "a", "x", "i", "m", "u", "m" >>) >> >>),
         Rep(0, Unbounded, TRUE, << Class("space") >>),
         Rep(0, 1, TRUE, << Text(<< "t", "h", "a", "n" >>), Rep(0, Unbounded, TRUE, << Class("space") >>) >>),
         Group(1, << Rep(1, Unbounded, TRUE, << Class("digit") >>) >>),
         Rep(0, Unbounded, TRUE, << Class("space") >>),
         Text(<< "m", "i", "l", "e" >>),
         Rep(0, 1, TRUE, << Text(<< "s" >>) >>) >>,
    \* line 301: r'(\d{3,5})\s*miles?'
    miles_exact |->
      << Group(1, << Rep(3, 5, TRUE, << Class("digit") >>) >>),
         Rep(0, Unbounded, TRUE, << Class("space") >>),
         Text(<< "m", "i", "l", "e" >>),
         Rep(0, 1, TRUE, << Text(<< "s" >>) >>) >>,
    \* line 312: r'(?:delay|delayed|late).*?(?:over|above|more than|greater than|exceeding|at least)\s*(\d+)'
    delay_greater |->
      << Alt(<< << Text(<< "d", "e", "l", "a", "y" >>) >>,
                << Text(<< "d", "e", "l", "a", "y", "e", "d" >>) >>,
                << Text(<< "l", "a", "t", "e" >>) >> >>),
         Rep(0, Unbounded, FALSE, << AnyChar >>),
         Alt(<< << Text(<< "o", "v", "e", "r" >>) >>,
                << Text(<< "a", "b", "o", "v", "e" >>) >>,
                << Text(<< "m", "o", "r", "e", " ", "t", "h", "a", "n" >>) >>,
                << Text(<< "g", "r", "e", "a", "t", "e", "r", " ", "t", "h", "a", "n" >>) >>,
                << Text(<< "e", "x", "c", "e", "e", "d", "i", "n", "g" >>) >>,
                << Text(<< "a", "t", " ", "l", "e", "a", "s", "t" >>) >> >>),
         Rep(0, Unbounded, TRUE, << Class("space") >>),
         Group(1, << Rep(1, Unbounded, TRUE, << Class("digit") >>) >>) >>,
    \* line 313: r'(?:delay|delayed|late).*?(?:under|below|less than|within|at most)\s*(\d+)'
    delay_less |->
      << Alt(<< << Text(<< "d", "e", "l", "a", "y" >>) >>,
                << Text(<< "d", "e", "l", "a", "y", "e", "d" >>) >>,
                << Text(<< "l", "a", "t", "e" >>) >> >>),
         Rep(0, Unbounded, FALSE, << AnyChar >>),
         Alt(<< << Text(<< "u", "n", "d", "e", "r" >>) >>,
                << Text(<< "b", "e", "l", "o", "w" >>) >>,
                << Text(<< "l", "e", "s", "s", " ", "t", "h", "a", "n" >>) >>,
                << Text(<< "w", "i", "t", "h", "i", "n" >>) >>,
                << Text(<< "a", "t", " ", "m", "o", "s", "t" >>) >> >>),
         Rep(0, Unbounded, TRUE, << Class("space") >>),
         Group(1, << Rep(1, Unbounded, TRUE, << Class("digit") >>) >>) >>,
    \* line 314: r'(?:over|above|more than|greater than|exceeding|at least)\s*(\d+)\s*(?:min|minute)'
    delay_greater_alt |->
      << Alt(<< << Text(<< "o", "v", "e", "r" >>) >>,
                << Text(<< "a", "b", "o", "v", "e" >>) >>,
                << Text(<< "m", "o", "r", "e", " ", "t", "h", "a", "n" >>) >>,
                << Text(<< "g", "r", "e", "a", "t", "e", "r", " ", "t", "h", "a", "n" >>) >>,
                << Text(<< "e", "x", "c", "e", "e", "d", "i", "n", "g" >>) >>,
                << Text(<< "a", "t", " ", "l", "e", "a", "s", "t" >>) >> >>),
         Rep(0, Unbounded, TRUE, << Class("space") >>),
         Group(1, << Rep(1, Unbounded, TRUE, << Class("digit") >>) >>),
         Rep(0, Unbounded, TRUE, << Class("space") >>),
         Text(<< "m", "i", "n" >>),
         Alt(<< <<  >>, << Text(<< "u", "t", "e" >>) >> >>) >>,
    \* line 315: r'(\d+)\s*(?:to|-)\s*(\d+)\s*(?:min|minute)'
    delay_range |->
      << Group(1, << Rep(1, Unbounded, TRUE, << Class("digit") >>) >>),
         Rep(0, Unbounded, TRUE, << Class("space") >>),
         Alt(<< << Text(<< "t", "o" >>) >>, << Text(<< "-" >>) >> >>),
         Rep(0, Unbounded, TRUE, << Class("space") >>),
         Group(2, << Rep(1, Unbounded, TRUE, << Class("digit") >>) >>),
         Rep(0, Unbounded, TRUE, << Class("space") >>),
         Text(<< "m", "i", "n" >>),
         Alt(<< <<  >>, << Text(<< "u", "t", "e" >>) >> >>) >>,
    \* line 318: r'(?:more than|over|above|at least|exceeding)\s*(\d+)\s*hours?'
    hour_pattern |->
      << Alt(<< << Text(<< "m", "o", "r", "e", " ", "t", "h", "a", "n" >>) >>,
                << Text(<< "o", "v", "e", "r" >>) >>,
                << Text(<< "a", "b", "o", "v", "e" >>) >>,
                << Text(<< "a", "t", " ", "l", "e", "a", "s", "t" >>) >>,
                << Text(<< "e", "x", "c", "e", "e", "d", "i", "n", "g" >>) >> >>),
         Rep(0, Unbounded, TRUE, << Class("space") >>),
         Group(1, << Rep(1, Unbounded, TRUE, << Class("digit") >>) >>),
         Rep(0, Unbounded, TRUE, << Class("space") >>),
         Text(<< "h", "o", "u", "r" >>),
         Rep(0, 1, TRUE, << Text(<< "s" >>) >>) >>,
    \* line 319: r'(\d+)\s*hours?\s*(?:delay|late|delayed)'
    hour_pattern_alt |->
      << Group(1, << Rep(1, Unbounded, TRUE, << Class("digit") >>) >>),
         Rep(0, Unbounded, TRUE, << Class("space") >>),
         Text(<< "h", "o", "u", "r" >>),
         Rep(0, 1, TRUE, << Text(<< "s" >>) >>),
         Rep(0, Unbounded, TRUE, << Class("space") >>),
         Alt(<< << Text(<< "d", "e", "l", "a", "y" >>) >>,
                << Text(<< "l", "a", "t", "e" >>) >>,
                << Text(<< "d", "e", "l", "a", "y", "e", "d" >>) >> >>) >>,
    \* line 321: r'(?:more than|over|above|at least|exceeding)?\s*(?:an?|one)\s*hours?'
    an_hour_pattern |->
      << Rep(0, 1, TRUE, << Alt(<< << Text(<< "m", "o", "r", "e", " ", "t", "h", "a", "n" >>) >>, << Text(<< "o", "v", "e", "r" >>) >>, << Text(<< "a", "b", "o", "v", "e" >>) >>, << Text(<< "a", "t", " ", "l", "e", "a", "s", "t" >>) >>, << Text(<< "e", "x", "c", "e", "e", "d", "i", "n", "g" >>) >> >>) >>),
         Rep(0, Unbounded, TRUE, << Class("space") >>),
         Alt(<< << Text(<< "a" >>), Rep(0, 1, TRUE, << Text(<< "n" >>) >>) >>,
                << Text(<< "o", "n", "e" >>) >> >>),
         Rep(0, Unbounded, TRUE, << Class("space") >>),
         Text(<< "h", "o", "u", "r" >>),
         Rep(0, 1, TRUE, << Text(<< "s" >>) >>) >>,
    \* line 340: r'(?:rating|score|satisfaction).*?(?:under|below|less than|at most|poor|bad)\s*(\d)'
    score_less |->
      << Alt(<< << Text(<< "r", "a", "t", "i", "n", "g" >>) >>,
                << Text(<< "s", "c", "o", "r", "e" >>) >>,
                << Text(<< "s", "a", "t", "i", "s", "f", "a", "c", "t", "i", "o", "n" >>) >> >>),
         Rep(0, Unbounded, FALSE, << AnyChar >>),
         Alt(<< << Text(<< "u", "n", "d", "e", "r" >>) >>,
                << Text(<< "b", "e", "l", "o", "w" >>) >>,
                << Text(<< "l", "e", "s", "s", " ", "t", "h", "a", "n" >>) >>,
                << Text(<< "a", "t", " ", "m", "o", "s", "t" >>) >>,
                << Text(<< "p", "o", "o", "r" >>) >>,
                << Text(<< "b", "a", "d" >>) >> >>),
         Rep(0, Unbounded, TRUE, << Class("space") >>),
         Group(1, << Class("digit") >>) >>,
    \* line 341: r'(?:rating|score|satisfaction).*?(?:over|above|more than|at least|good|excellent)\s*(\d)'
    score_greater |->
      << Alt(<< << Text(<< "r", "a", "t", "i", "n", "g" >>) >>,
                << Text(<< "s", "c", "o", "r", "e" >>) >>,
                << Text(<< "s", "a", "t", "i", "s", "f", "a", "c", "t", "i", "o", "n" >>) >> >>),
         Rep(0, Unbounded, FALSE, << AnyChar >>),
         Alt(<< << Text(<< "o", "v", "e", "r" >>) >>,
                << Text(<< "a", "b", "o", "v", "e" >>) >>,
                << Text(<< "m", "o", "r", "e", " ", "t", "h", "a", "n" >>) >>,
                << Text(<< "a", "t", " ", "l", "e", "a", "s", "t" >>) >>,
                << Text(<< "g", "o", "o", "d" >>) >>,
                << Text(<< "e", "x", "c", "e", "l", "l", "e", "n", "t" >>) >> >>),
         Rep(0, Unbounded, TRUE, << Class("space") >>),
         Group(1, << Class("digit") >>) >>,
    \* line 349: r'(?:more than|at least|over|above|exceeding|minimum)\s*(\d+)\s*(?:leg|stop|connection)'
    legs_greater |->
      << Alt(<< << Text(<< "m", "o", "r", "e", " ", "t", "h", "a", "n" >>) >>,
                << Text(<< "a", "t", " ", "l", "e", "a", "s", "t" >>) >>,
                << Text(<< "o", "v", "e", "r" >>) >>,
                << Text(<< "a", "b", "o", "v", "e" >>) >>,
                << Text(<< "e", "x", "c", "e", "e", "d", "i", "n", "g" >>) >>,
                << Text(<< "m", "i", "n", "i", "m", "u", "m" >>) >> >>),
         Rep(0, Unbounded, TRUE, << Class("space") >>),
         Group(1, << Rep(1, Unbounded, TRUE, << Class("digit") >>) >>),
         Rep(0, Unbounded, TRUE, << Class("space") >>),
         Alt(<< << Text(<< "l", "e", "g" >>) >>,
                << Text(<< "s", "t", "o", "p" >>) >>,
                << Text(<< "c", "o", "n", "n", "e", "c", "t", "i", "o", "n" >>) >> >>) >>,
    \* line 350: r'(?:less than|at most|under|below|within|maximum)\s*(\d+)\s*(?:leg|stop|connection)'
    legs_less |->
      << Alt(<< << Text(<< "l", "e", "s", "s", " ", "t", "h", "a", "n" >>) >>,
                << Text(<< "a", "t", " ", "m", "o", "s", "t" >>) >>,
                << Text(<< "u", "n", "d", "e", "r" >>) >>,
                << Text(<< "b", "e", "l", "o", "w" >>) >>,
                << Text(<< "w", "i", "t", "h", "i", "n" >>) >>,
                << Text(<< "m", "a", "x", "i", "m", "u", "m" >>) >> >>),
         Rep(0, Unbounded, TRUE, << Class("space") >>),
         Group(1, << Rep(1, Unbounded, TRUE, << Class("digit") >>) >>),
         Rep(0, Unbounded, TRUE, << Class("space") >>),
         Alt(<< << Text(<< "l", "e", "g" >>) >>,
                << Text(<< "s", "t", "o", "p" >>) >>,
                << Text(<< "c", "o", "n", "n", "e", "c", "t", "i", "o", "n" >>) >> >>) >>,
    \* line 351: r'(\d+)\s*(?:leg|stop|connection)'
    legs_exact |->
      << Group(1, << Rep(1, Unbounded, TRUE, << Class("digit") >>) >>),
         Rep(0, Unbounded, TRUE, << Class("space") >>),
         Alt(<< << Text(<< "l", "e", "g" >>) >>,
                << Text(<< "s", "t", "o", "p" >>) >>,
                << Text(<< "c", "o", "n", "n", "e", "c", "t", "i", "o", "n" >>) >> >>) >> ]
\* the word lists of lines 374-410 and 446-449
Words ==
    \* line 374: ['severe', 'severely', 'severly', 'major delay', 'significant', 'big delay', 'huge delay']
  [ severe |->
      << << "s", "e", "v", "e", "r", "e" >>,
         << "s", "e", "v", "e", "r", "e", "l", "y" >>,
         << "s", "e", "v", "e", "r", "l", "y" >>,
         << "m", "a", "j", "o", "r", " ", "d", "e", "l", "a", "y" >>,
         << "s", "i", "g", "n", "i", "f", "i", "c", "a", "n", "t" >>,
         << "b", "i", "g", " ", "d", "e", "l", "a", "y" >>,
         << "h", "u", "g", "e", " ", "d", "e", "l", "a", "y" >> >>,
    \* line 376: ['extreme', 'very delayed', 'massive', 'extremely']
    extreme |->
      << << "e", "x", "t", "r", "e", "m", "e" >>,
         << "v", "e", "r", "y", " ", "d", "e", "l", "a", "y", "e", "d" >>,
         << "m", "a", "s", "s", "i", "v", "e" >>,
         << "e", "x", "t", "r", "e", "m", "e", "l", "y" >> >>,
    \* line 378: ['moderate', 'moderately']
    moderate |->
      << << "m", "o", "d", "e", "r", "a", "t", "e" >>,
         << "m", "o", "d", "e", "r", "a", "t", "e", "l", "y" >> >>,
    \* line 380: ['slight', 'minor', 'small delay', 'little delay']
    slight |->
      << << "s", "l", "i", "g", "h", "t" >>,
         << "m", "i", "n", "o", "r" >>,
         << "s", "m", "a", "l", "l", " ", "d", "e", "l", "a", "y" >>,
         << "l", "i", "t", "t", "l", "e", " ", "d", "e", "l", "a", "y" >> >>,
    \* line 382: ['on time', 'punctual', 'no delay']
    on_time |->
      << << "o", "n", " ", "t", "i", "m", "e" >>,
         << "p", "u", "n", "c", "t", "u", "a", "l" >>,
         << "n", "o", " ", "d", "e", "l", "a", "y" >> >>,
    \* line 388: ['poor rating', 'poor food', 'bad rating', 'bad food', 'low satisfaction', 'terrible']
    poor_food |->
      << << "p", "o", "o", "r", " ", "r", "a", "t", "i", "n", "g" >>,
         << "p", "o", "o", "r", " ", "f", "o", "o", "d" >>,
         << "b", "a", "d", " ", "r", "a", "t", "i", "n", "g" >>,
         << "b", "a", "d", " ", "f", "o", "o", "d" >>,
         << "l", "o", "w", " ", "s", "a", "t", "i", "s", "f", "a", "c", "t", "i", "o", "n" >>,
         << "t", "e", "r", "r", "i", "b", "l", "e" >> >>,
    \* line 390: ['excellent rating', 'excellent food', 'great food', 'high satisfaction']
    excellent_food |->
      << << "e", "x", "c", "e", "l", "l", "e", "n", "t", " ", "r", "a", "t", "i", "n", "g" >>,
         << "e", "x", "c", "e", "l", "l", "e", "n", "t", " ", "f", "o", "o", "d" >>,
         << "g", "r", "e", "a", "t", " ", "f", "o", "o", "d" >>,
         << "h", "i", "g", "h", " ", "s", "a", "t", "i", "s", "f", "a", "c", "t", "i", "o", "n" >> >>,
    \* line 392: ['good rating', 'good food']
    good_food |->
      << << "g", "o", "o", "d", " ", "r", "a", "t", "i", "n", "g" >>,
         << "g", "o", "o", "d", " ", "f", "o", "o", "d" >> >>,
    \* line 394: ['average rating', 'average food', 'okay food']
    average_food |->
      << << "a", "v", "e", "r", "a", "g", "e", " ", "r", "a", "t", "i", "n", "g" >>,
         << "a", "v", "e", "r", "a", "g", "e", " ", "f", "o", "o", "d" >>,
         << "o", "k", "a", "y", " ", "f", "o", "o", "d" >> >>,
    \* line 398: ['short-haul', 'short haul', 'short flight', 'short distance']
    short_haul |->
      << << "s", "h", "o", "r", "t", "-", "h", "a", "u", "l" >>,
         << "s", "h", "o", "r", "t", " ", "h", "a", "u", "l" >>,
         << "s", "h", "o", "r", "t", " ", "f", "l", "i", "g", "h", "t" >>,
         << "s", "h", "o", "r", "t", " ", "d", "i", "s", "t", "a", "n", "c", "e" >> >>,
    \* line 400: ['long-haul', 'long haul', 'long flight', 'long distance']
    long_haul |->
      << << "l", "o", "n", "g", "-", "h", "a", "u", "l" >>,
         << "l", "o", "n", "g", " ", "h", "a", "u", "l" >>,
         << "l", "o", "n", "g", " ", "f", "l", "i", "g", "h", "t" >>,
         << "l", "o", "n", "g", " ", "d", "i", "s", "t", "a", "n", "c", "e" >> >>,
    \* line 402: ['medium-haul', 'medium haul', 'medium distance']
    medium_haul |->
      << << "m", "e", "d", "i", "u", "m", "-", "h", "a", "u", "l" >>,
         << "m", "e", "d", "i", "u", "m", " ", "h", "a", "u", "l" >>,
         << "m", "e", "d", "i", "u", "m", " ", "d", "i", "s", "t", "a", "n", "c", "e" >> >>,
    \* line 406: ['direct flight', 'direct flights', 'nonstop', 'non-stop', 'non stop', 'single leg']
    direct |->
      << << "d", "i", "r", "e", "c", "t", " ", "f", "l", "i", "g", "h", "t" >>,
         << "d", "i", "r", "e", "c", "t", " ", "f", "l", "i", "g", "h", "t", "s" >>,
         << "n", "o", "n", "s", "t", "o", "p" >>,
         << "n", "o", "n", "-", "s", "t", "o", "p" >>,
         << "n", "o", "n", " ", "s", "t", "o", "p" >>,
         << "s", "i", "n", "g", "l", "e", " ", "l", "e", "g" >> >>,
    \* line 408: ['connecting flight', 'multi-leg', 'multi leg', 'with connection', 'with stop']
    connecting |->
      << << "c", "o", "n", "n", "e", "c", "t", "i", "n", "g", " ", "f", "l", "i", "g", "h", "t" >>,
         << "m", "u", "l", "t", "i", "-", "l", "e", "g" >>,
         << "m", "u", "l", "t", "i", " ", "l", "e", "g" >>,
         << "w", "i", "t", "h", " ", "c", "o", "n", "n", "e", "c", "t", "i", "o", "n" >>,
         << "w", "i", "t", "h", " ", "s", "t", "o", "p" >> >>,
    \* line 410: ['complex journey', 'multiple stops', 'many legs']
    complex |->
      << << "c", "o", "m", "p", "l", "e", "x", " ", "j", "o", "u", "r", "n", "e", "y" >>,
         << "m", "u", "l", "t", "i", "p", "l", "e", " ", "s", "t", "o", "p", "s" >>,
         << "m", "a", "n", "y", " ", "l", "e", "g", "s" >> >>,
    \* line 446: ['severe', 'moderate', 'slight', 'extreme', 'poor', 'bad', 'good', 'excellent', 'short', 'long', 'medium', 'direct', 'connecting', 'multi', 'complex']
    needs_llm |->
      << << "s", "e", "v", "e", "r", "e" >>,
         << "m", "o", "d", "e", "r", "a", "t", "e" >>,
         << "s", "l", "i", "g", "h", "t" >>,
         << "e", "x", "t", "r", "e", "m", "e" >>,
         << "p", "o", "o", "r" >>,
         << "b", "a", "d" >>,
         << "g", "o", "o", "d" >>,
         << "e", "x", "c", "e", "l", "l", "e", "n", "t" >>,
         << "s", "h", "o", "r", "t" >>,
         << "l", "o", "n", "g" >>,
         << "m", "e", "d", "i", "u", "m" >>,
         << "d", "i", "r", "e", "c", "t" >>,
         << "c", "o", "n", "n", "e", "c", "t", "i", "n", "g" >>,
         << "m", "u", "l", "t", "i" >>,
         << "c", "o", "m", "p", "l", "e", "x" >> >> ]
-----------------------------------------------------------------------------
(* extract_parameters_from_text, preprocessing.py lines 291-362            *)

\* parameters[key] = int(match.group(g))
SetGroup(parameters, key, match, g) == Put(parameters, key, IntVal(int(match.groups[g])))

\* lines 303-309: mileage
explicit_miles(user_input, parameters) ==
  LET miles_greater == re_search(Pattern.miles_greater, user_input)
      miles_less == re_search(Pattern.miles_less, user_input)
      miles_exact == re_search(Pattern.miles_exact, user_input)
      p1 == IF miles_greater.ok THEN SetGroup(parameters, "min_miles", miles_greater, 1)
            ELSE parameters
  IN  IF miles_less.ok THEN SetGroup(p1, "max_miles", miles_less, 1)
      ELSE IF miles_exact.ok /\ "min_miles" \notin DOMAIN p1
        THEN SetGroup(p1, "min_miles", miles_exact, 1)
      ELSE p1

\* lines 323-337: delay, hours converted to minutes
explicit_delay(user_input, parameters) ==
  LET delay_greater == re_search(Pattern.delay_greater, user_input)
      delay_less == re_search(Pattern.delay_less, user_input)
      delay_greater_alt == re_search(Pattern.delay_greater_alt, user_input)
      delay_range == re_search(Pattern.delay_range, user_input)
      hour_pattern == re_search(Pattern.hour_pattern, user_input)
      hour_pattern_alt == re_search(Pattern.hour_pattern_alt, user_input)
      an_hour_pattern == re_search(Pattern.an_hour_pattern, user_input)
  IN  IF an_hour_pattern.ok THEN Put(parameters, "min_delay", IntVal(60))
      ELSE IF hour_pattern.ok
        THEN Put(parameters, "min_delay", IntVal(int(hour_pattern.groups[1]) * 60))
      ELSE IF hour_pattern_alt.ok
        THEN Put(parameters, "min_delay", IntVal(int(hour_pattern_alt.groups[1]) * 60))
      ELSE IF delay_range.ok
        THEN SetGroup(SetGroup(parameters, "min_delay", delay_range, 1),
                      "max_delay", delay_range, 2)
      ELSE IF delay_greater.ok THEN SetGroup(parameters, "min_delay", delay_greater, 1)
      ELSE IF delay_greater_alt.ok
        THEN SetGroup(parameters, "min_delay", delay_greater_alt, 1)
      ELSE IF delay_less.ok THEN SetGroup(parameters, "max_delay", delay_less, 1)
      ELSE parameters

\* lines 343-346: satisfaction score
explicit_score(user_input, parameters) ==
  LET score_less == re_search(Pattern.score_less, user_input)
      score_greater == re_search(Pattern.score_greater, user_input)
      p1 == IF score_less.ok THEN SetGroup(parameters, "max_food_satisfaction", score_less, 1)
            ELSE parameters
  IN  IF score_greater.ok THEN SetGroup(p1, "min_food_satisfaction", score_greater, 1)
      ELSE p1

\* lines 353-360: legs
explicit_legs(user_input, parameters) ==
  LET legs_greater == re_search(Pattern.legs_greater, user_input)
      legs_less == re_search(Pattern.legs_less, user_input)
      legs_exact == re_search(Pattern.legs_exact, user_input)
      p1 == IF legs_greater.ok THEN SetGroup(parameters, "min_legs", legs_greater, 1)
            ELSE parameters
  IN  IF legs_less.ok THEN SetGroup(p1, "max_legs", legs_less, 1)
      ELSE IF legs_exact.ok /\ "min_legs" \notin DOMAIN p1 /\ "max_legs" \notin DOMAIN p1
        THEN SetGroup(SetGroup(p1, "min_legs", legs_exact, 1), "max_legs", legs_exact, 1)
      ELSE p1

extract_parameters_from_text(user_input) ==
  explicit_legs(user_input,
    explicit_score(user_input,
      explicit_delay(user_input,
        explicit_miles(user_input, EmptyBag))))

-----------------------------------------------------------------------------
(* infer_semantic_parameters, preprocessing.py lines 365-413               *)

\* lines 20-55
SEMANTIC_THRESHOLDS ==
  [ delay |->
      ( "early" :> [max_delay |-> IntVal(0)]
        @@ "on_time" :> [min_delay |-> IntVal(-15), max_delay |-> IntVal(15)]
        @@ "slight" :> [min_delay |-> IntVal(1), max_delay |-> IntVal(15)]
        @@ "moderate" :> [min_delay |-> IntVal(16), max_delay |-> IntVal(60)]
        @@ "severe" :> [min_delay |-> IntVal(61)]
        @@ "extreme" :> [min_delay |-> IntVal(120)] ),
    food_satisfaction |->
      ( "poor" :> [max_food_satisfaction |-> IntVal(2)]
        @@ "bad" :> [max_food_satisfaction |-> IntVal(2)]
        @@ "low" :> [max_food_satisfaction |-> IntVal(2)]
        @@ "mid" :> [min_food_satisfaction |-> IntVal(3), max_food_satisfaction |-> IntVal(3)]
        @@ "good" :> [min_food_satisfaction |-> IntVal(4)]
        @@ "excellent" :> [min_food_satisfaction |-> IntVal(5)]
        @@ "high" :> [min_food_satisfaction |-> IntVal(4)] ),
    distance |->
      ( "short" :> [max_miles |-> IntVal(1000)]
        @@ "short-haul" :> [max_miles |-> IntVal(1000)]
        @@ "medium" :> [min_miles |-> IntVal(1000), max_miles |-> IntVal(4000)]
        @@ "medium-haul" :> [min_miles |-> IntVal(1000), max_miles |-> IntVal(4000)]
        @@ "long" :> [min_miles |-> IntVal(4000)]
        @@ "long-haul" :> [min_miles |-> IntVal(4000)] ),
    legs |->
      ( "direct" :> [max_legs |-> IntVal(1)]
        @@ "nonstop" :> [max_legs |-> IntVal(1)]
        @@ "single" :> [max_legs |-> IntVal(1)]
        @@ "connecting" :> [min_legs |-> IntVal(2)]
        @@ "multi-leg" :> [min_legs |-> IntVal(2)]
        @@ "multi" :> [min_legs |-> IntVal(2)]
        @@ "complex" :> [min_legs |-> IntVal(3)] ) ]

\* `any(word in s for word in words)`
any_in(words, s) == \E i \in 1..Len(words) : str_contains(words[i], s)

\* parameters[key] = SEMANTIC_THRESHOLDS[category][term][key]; a missing key
\* of a dict is a KeyError
SetThreshold(parameters, key, category, term) ==
  IF term \notin DOMAIN SEMANTIC_THRESHOLDS[category] THEN Raised
  ELSE IF key \notin DOMAIN SEMANTIC_THRESHOLDS[category][term] THEN Raised
  ELSE Returned(Put(parameters, key, SEMANTIC_THRESHOLDS[category][term][key]))

\* dict.update: the entries of other replace those of parameters
dict_update(parameters, other) ==
  [ k \in (DOMAIN parameters) \cup (DOMAIN other) |->
      IF k \in DOMAIN other THEN other[k] ELSE parameters[k] ]

\* parameters.update(SEMANTIC_THRESHOLDS[category][term])
UpdateThreshold(parameters, category, term) ==
  IF term \notin DOMAIN SEMANTIC_THRESHOLDS[category] THEN Raised
  ELSE Returned(dict_update(parameters, SEMANTIC_THRESHOLDS[category][term]))

s_early == << "e", "a", "r", "l", "y" >>
s_delay == << "d", "e", "l", "a", "y" >>

\* lines 374-385
semantic_delay(input_lower, parameters) ==
  IF any_in(Words.severe, input_lower)
    THEN SetThreshold(parameters, "min_delay", "delay", "severe")
  ELSE IF any_in(Words.extreme, input_lower)
    THEN SetThreshold(parameters, "min_delay", "delay", "extreme")
  ELSE IF any_in(Words.moderate, input_lower)
    THEN UpdateThreshold(parameters, "delay", "moderate")
  ELSE IF any_in(Words.slight, input_lower)
    THEN UpdateThreshold(parameters, "delay", "slight")
  ELSE IF any_in(Words.on_time, input_lower)
    THEN UpdateThreshold(parameters, "delay", "on_time")
  ELSE IF str_contains(s_early, input_lower) /\ ~str_contains(s_delay, input_lower)
    THEN Returned(Put(parameters, "max_delay", IntVal(0)))
  ELSE Returned(parameters)

\* lines 388-395
semantic_food(input_lower, parameters) ==
  IF any_in(Words.poor_food, input_lower)
    THEN SetThreshold(parameters, "max_food_satisfaction", "food_satisfaction", "poor")
  ELSE IF any_in(Words.excellent_food, input_lower)
    THEN SetThreshold(parameters, "min_food_satisfaction", "food_satisfaction", "excellent")
  ELSE IF any_in(Words.good_food, input_lower)
    THEN SetThreshold(parameters, "min_food_satisfaction", "food_satisfaction", "good")
  ELSE IF any_in(Words.average_food, input_lower)
    THEN UpdateThreshold(parameters, "food_satisfaction", "average")
  ELSE Returned(parameters)

\* lines 398-403
semantic_distance(input_lower, parameters) ==
  IF any_in(Words.short_haul, input_lower)
    THEN SetThreshold(parameters, "max_miles", "distance", "short")
  ELSE IF any_in(Words.long_haul, input_lower)
    THEN SetThreshold(parameters, "min_miles", "distance", "long")
  ELSE IF any_in(Words.medium_haul, input_lower)
    THEN UpdateThreshold(parameters, "distance", "medium")
  ELSE Returned(parameters)

\* lines 406-411
semantic_legs(input_lower, parameters) ==
  IF any_in(Words.direct, input_lower)
    THEN SetThreshold(parameters, "max_legs", "legs", "direct")
  ELSE IF any_in(Words.connecting, input_lower)
    THEN SetThreshold(parameters, "min_legs", "legs", "connecting")
  ELSE IF any_in(Words.complex, input_lower)
    THEN SetThreshold(parameters, "min_legs", "legs", "complex")
  ELSE Returned(parameters)

\* the four groups of statements in sequence (lines 374-411); an exception in one
\* ends the function
infer_semantic_parameters(user_input) ==
  LET input_lower == str_lower(user_input)
      delay == semantic_delay(input_lower, EmptyBag)
      food == IF delay.raised THEN Raised ELSE semantic_food(input_lower, delay.bag)
      distance == IF food.raised THEN Raised ELSE semantic_distance(input_lower, food.bag)
  IN  IF distance.raised THEN Raised ELSE semantic_legs(input_lower, distance.bag)

-----------------------------------------------------------------------------
(* extract_parameters_with_llm, preprocessing.py lines 151-216             *)

\* The collaborator's reply (get_answer, line 209) is a text or an exception.
\* A text is the sequence of its lexical tokens: a markdown fence, a
\* punctuation mark of JSON, a quoted string, a number, or a bare word.
\* the markdown fences: three backquotes, with or without the word json
Fence == [t |-> "fence", s |-> "", n |-> 0]
FenceJson == [t |-> "fence", s |-> "json", n |-> 0]
Punct(s) == [t |-> "punct", s |-> s, n |-> 0]
Quoted(s) == [t |-> "str", s |-> s, n |-> 0]
Number(n) == [t |-> "num", s |-> "", n |-> n]
Word(s) == [t |-> "word", s |-> s, n |-> 0]
ReplyText(tokens) == [kind |-> "text", tokens |-> tokens]
ReplyRaises == [kind |-> "raise", tokens |-> << >>]

\* line 211: both fences are replaced by '' and the text is stripped
strip_fences(tokens) == SelectSeq(tokens, LAMBDA x : x.t # "fence")

\* what json.loads returns: a dict, a list, or a scalar value
DictVal(items) == [kind |-> "dict", items |-> items]
ListVal(items) == [kind |-> "list", items |-> items]
Parsed(value) == [ok |-> TRUE, value |-> value]
JSONDecodeError == [ok |-> FALSE, value |-> None]

\* a JSON scalar
json_scalar(tok) ==
  CASE tok.t = "num" -> Parsed(IntVal(tok.n))
    [] tok.t = "str" -> Parsed([kind |-> "str", s |-> tok.s, n |-> 0])
    [] tok = Word("null") -> Parsed(None)
    [] OTHER -> JSONDecodeError

RECURSIVE json_members(_, _)
\* `"key": scalar` pairs separated by commas, added to items in order
json_members(tokens, items) ==
  IF Len(tokens) < 3 THEN JSONDecodeError
  ELSE IF ~(tokens[1].t = "str" /\ tokens[2] = Punct(":") /\ json_scalar(tokens[3]).ok)
    THEN JSONDecodeError
  ELSE LET more == Put(items, tokens[1].s, json_scalar(tokens[3]).value) IN
       IF Len(tokens) = 3 THEN Parsed(DictVal(more))
       ELSE IF tokens[4] = Punct(",") THEN json_members(SubSeq(tokens, 5, Len(tokens)), more)
       ELSE JSONDecodeError

RECURSIVE json_elements(_, _)
\* scalars separated by commas, appended to items
json_elements(tokens, items) ==
  IF tokens = << >> \/ ~json_scalar(tokens[1]).ok THEN JSONDecodeError
  ELSE LET more == Append(items, json_scalar(tokens[1]).value) IN
       IF Len(tokens) = 1 THEN Parsed(ListVal(more))
       ELSE IF tokens[2] = Punct(",") THEN json_elements(SubSeq(tokens, 3, Len(tokens)), more)
       ELSE JSONDecodeError

\* json.loads on the token sequence of a text
json_loads(tokens) ==
  IF tokens = << >> THEN JSONDecodeError
  ELSE IF Len(tokens) = 1 THEN json_scalar(tokens[1])
  ELSE IF tokens[1] = Punct("{") /\ tokens[Len(tokens)] = Punct("}")
    THEN IF Len(tokens) = 2 THEN Parsed(DictVal(EmptyBag))
         ELSE json_members(SubSeq(tokens, 2, Len(tokens) - 1), EmptyBag)
  ELSE IF tokens[1] = Punct("[") /\ tokens[Len(tokens)] = Punct("]")
    THEN IF Len(tokens) = 2 THEN Parsed(ListVal(<< >>))
         ELSE json_elements(SubSeq(tokens, 2, Len(tokens) - 1), << >>)
  ELSE JSONDecodeError

\* lines 208-216: whatever json.loads returns is returned as it is; a
\* collaborator exception or a decoding error gives {}
extract_parameters_with_llm(reply) ==
  IF reply.kind = "raise" THEN DictVal(EmptyBag)
  ELSE LET parameters == json_loads(strip_fences(reply.tokens)) IN
       IF parameters.ok THEN parameters.value ELSE DictVal(EmptyBag)

-----------------------------------------------------------------------------
(* process_query, preprocessing.py lines 416-457                           *)

\* `parameters[key] = value` for every key of other, present or not
merge_overwriting(parameters, other) ==
  [ k \in (DOMAIN parameters) \cup (DOMAIN other) |->
      IF k \in DOMAIN other THEN other[k] ELSE parameters[k] ]

\* lines 441-443 and 453-455: `if key not in parameters: parameters[key] = value`
merge_missing(parameters, other) ==
  [ k \in (DOMAIN parameters) \cup (DOMAIN other) |->
      IF k \in DOMAIN parameters THEN parameters[k] ELSE other[k] ]

\* lines 446-449
needs_llm(user_input) == any_in(Words.needs_llm, str_lower(user_input))

\* what the steps of process_query that read the user input yield (lines 435,
\* 438 and 446-449): the two local passes and the trigger-word test
local_passes(user_input) ==
  [explicit |-> extract_parameters_from_text(user_input),
   semantic |-> infer_semantic_parameters(user_input),
   needs_llm |-> needs_llm(user_input)]

\* line 451 without `and not parameters`
calls_llm_on_trigger(trigger, parameters) == trigger

\* line 451: `if needs_llm and not parameters`
calls_llm(trigger, parameters) == trigger /\ parameters = EmptyBag

\* what process_query did: raised or returned (intent, entities, parameters);
\* explicit and semantic are what the first two passes returned, llm_calls the
\* replies of the collaborator to the calls made for parameters, and
\* classifier_calls its replies to the calls made for the intent
Processed(raised, i, ents, parameters, explicit, semantic, llm_calls, classifier_calls) ==
  [raised |-> raised, intent |-> i, entities |-> ents, parameters |-> parameters,
   explicit |-> explicit, semantic |-> semantic, llm_calls |-> llm_calls,
   classifier_calls |-> classifier_calls]

\* lines 440-457, given what the two local passes returned
process_llm_step(trigger, i, ents, explicit, semantic, reply, label) ==
  LET parameters == merge_missing(explicit, semantic) IN
  IF ~calls_llm(trigger, parameters)
  THEN Processed(FALSE, i, ents, parameters, explicit, semantic, << >>, << label >>)
  ELSE LET llm_params == extract_parameters_with_llm(reply) IN
       IF llm_params.kind # "dict"
       THEN \* line 453: llm_params.items() on a value that has no items()
            Processed(TRUE, i, EmptyBag, EmptyBag, explicit, semantic, << reply >>,
                      << label >>)
       ELSE Processed(FALSE, i, ents, merge_missing(parameters, llm_params.items),
                      explicit, semantic, << reply >>, << label >>)

\* passes is local_passes(user_input), label the classifier's reply, ents what
\* extract_entities returns, reply what the collaborator answers if it is asked
\* for parameters
process_query(passes, label, ents, reply) ==
  IF classify_intent(label) = "unknown"
  THEN Processed(FALSE, "unknown", EmptyBag, EmptyBag, EmptyBag, EmptyBag, << >>,
                 << label >>)
  ELSE IF passes.semantic.raised
  THEN \* line 438 is in no try block
       Processed(TRUE, classify_intent(label), EmptyBag, EmptyBag,
                 passes.explicit, EmptyBag, << >>, << label >>)
  ELSE process_llm_step(passes.needs_llm, classify_intent(label), ents,
                        passes.explicit, passes.semantic.bag, reply, label)

-----------------------------------------------------------------------------
(* Inputs                                                                  *)

Input ==
  [ Boomers |-> << "B", "o", "o", "m", "e", "r", "s" >>,
    BABY_BOOMERS |-> << "B", "A", "B", "Y", " ", "B", "O", "O", "M", "E", "R", "S" >>,
    millennials |-> << "m", "i", "l", "l", "e", "n", "n", "i", "a", "l", "s" >>,
    GEN_X |-> << "G", "E", "N", " ", "X" >>,
    gen_z |-> << "g", "e", "n", " ", "z" >>,
    Silent |-> << "S", "i", "l", "e", "n", "t" >>,
    Gold |-> << "G", "o", "l", "d" >>,
    Premier_Silver |-> << "P", "r", "e", "m", "i", "e", "r", "-", "S", "i", "l", "v", "e", "r" >>,
    PLATINUM |-> << "P", "L", "A", "T", "I", "N", "U", "M" >>,
    1K |-> << "1", "K" >>,
    Non_Elite |-> << "N", "o", "n", " ", "E", "l", "i", "t", "e" >>,
    Elite |-> << "E", "l", "i", "t", "e" >>,
    Economy |-> << "E", "c", "o", "n", "o", "m", "y" >>,
    Business |-> << "B", "u", "s", "i", "n", "e", "s", "s" >>,
    LAX |-> << "L", "A", "X" >>,
    JFK |-> << "J", "F", "K" >>,
    SFX |-> << "S", "F", "X" >>,
    EPXXW8 |-> << "E", "P", "X", "X", "W", "8" >>,
    ABCDE1 |-> << "A", "B", "C", "D", "E", "1" >>,
    F_12 |-> << "F", "_", "1", "2" >>,
    B777 |-> << "B", "7", "7", "7" >>,
    12A |-> << "1", "2", "A" >>,
    empty |-> << >> ]
\* the empty string

\* the alternate spellings of keys that upstream extraction produces
AliasKeys ==
  { "origin_code", "dest_code", "destination", "vip_id", "loyalty_level", "passenger_class" }
\* the keys some template or the fallback query binds
SlotKeys == key_entities \cup { "record_locator", "feedback_id", "max_score" }
\* a key no part of the engine knows
UnknownKeys == { "seat" }
NumericKeys ==
  { "min_delay", "max_delay", "min_miles", "max_miles", "min_legs", "max_legs",
    "min_food_satisfaction", "max_food_satisfaction", "max_score" }

\* one ordinary value for each key
NominalValue(k) ==
  CASE k = "generation" -> StrVal(Input.Boomers)
    [] k \in {"loyalty_tier"} -> StrVal(Input.Gold)
    [] k \in {"loyalty_level"} -> StrVal(Input.PLATINUM)
    [] k = "class" -> StrVal(Input.Economy)
    [] k = "passenger_class" -> StrVal(Input.Business)
    [] k = "fleet_type" -> StrVal(Input.B777)
    [] k = "origin" -> StrVal(Input.LAX)
    [] k = "origin_code" -> StrVal(Input.JFK)
    [] k = "dest" -> StrVal(Input.JFK)
    [] k \in {"dest_code", "destination"} -> StrVal(Input.SFX)
    [] k = "record_locator" -> StrVal(Input.EPXXW8)
    [] k = "vip_id" -> StrVal(Input.ABCDE1)
    [] k = "feedback_id" -> StrVal(Input.F_12)
    [] k = "seat" -> StrVal(Input.12A)
    [] k \in {"min_delay", "max_delay"} -> IntVal(61)
    [] k \in {"min_miles", "max_miles"} -> IntVal(1000)
    [] k \in {"min_legs", "max_legs"} -> IntVal(2)
    [] OTHER -> IntVal(3)

RECURSIVE KeySets(_, _)
\* the subsets of S with at most n elements
KeySets(S, n) ==
  IF n = 0 \/ S = {} THEN { {} }
  ELSE LET x == CHOOSE k \in S : TRUE IN
       KeySets(S \ {x}, n) \cup { K \cup {x} : K \in KeySets(S \ {x}, n - 1) }

RECURSIVE BagsOver(_, _)
\* the bags with key set K whose value at k is drawn from valuesOf[k]
BagsOver(K, valuesOf) ==
  IF K = {} THEN { EmptyBag }
  ELSE LET k == CHOOSE x \in K : TRUE IN
       { Put(b, k, v) : b \in BagsOver(K \ {k}, valuesOf), v \in valuesOf[k] }

BagsUpTo(S, n, valuesOf) == UNION { BagsOver(K, valuesOf) : K \in KeySets(S, n) }

\* raw bags handed to normalize_entities: every spelling of the two values it
\* rewrites, a value that is no string, and both keys of each alias pair
NormKeys ==
  { "generation", "loyalty_tier", "class", "origin", "dest", "record_locator" }
    \cup AliasKeys \cup UnknownKeys
NormValues ==
  [ k \in NormKeys |->
      CASE k = "generation" ->
             { StrVal(Input.Boomers), StrVal(Input.BABY_BOOMERS), StrVal(Input.millennials),
               StrVal(Input.GEN_X), StrVal(Input.gen_z), StrVal(Input.Silent), None, IntVal(1946) }
        [] k \in {"loyalty_tier", "loyalty_level"} ->
             { StrVal(Input.Gold), StrVal(Input.Premier_Silver), StrVal(Input.PLATINUM),
               StrVal(Input.1K), StrVal(Input.Non_Elite), StrVal(Input.Elite), None }
        [] OTHER -> { NominalValue(k) } ]
NormBags == BagsUpTo(NormKeys, MaxNormKeys, NormValues)

\* bags handed to get_query_for_intent: only the keys matter to it
RouteKeys == SlotKeys \cup UnknownKeys
RouteValues == [ k \in RouteKeys |-> { NominalValue(k) } ]
RouteBags == BagsUpTo(RouteKeys, MaxRouteKeys, RouteValues)

\* raw bags handed to run_query by a caller of the retriever
RawKeys == SlotKeys \cup AliasKeys \cup UnknownKeys
\* keys that can arrive bound to the empty string
BlankableKeys == { "generation", "origin", "class" }
RawValues ==
  [ k \in RawKeys |->
      { NominalValue(k), None }
        \cup (IF k \in BlankableKeys THEN { StrVal(Input.empty) } ELSE {}) ]
RawBags == BagsUpTo(RawKeys, MaxRawKeys, RawValues)

\* what extract_entities (preprocessing.py 219-288) can return: these keys, each
\* bound to a string
ExtractedKeys ==
  { "generation", "loyalty_tier", "class", "fleet_type", "record_locator",
    "feedback_id", "origin", "dest" }
ExtractedValues ==
  [ k \in ExtractedKeys |->
      CASE k = "generation" -> { StrVal(Lit.Boomer) }
        [] k = "loyalty_tier" -> { StrVal(Lit.premier_gold) }
        [] OTHER -> { NominalValue(k) } ]
ExtractedBags == BagsUpTo(ExtractedKeys, MaxRawKeys, ExtractedValues)

\* what process_query (preprocessing.py 433-455) can return as parameters
ParameterKeys == NumericKeys
ParameterValues == [ k \in ParameterKeys |-> { NominalValue(k) } ]
ParameterBags == BagsUpTo(ParameterKeys, MaxRawKeys, ParameterValues)

\* phrases of user inputs: explicit comparisons, qualitative terms of the
\* semantic pass, trigger words of process_query, and text none of them reads
Phrase ==
  [ flights_from_LAX |-> << "f", "l", "i", "g", "h", "t", "s", " ", "f", "r", "o", "m", " ", "L", "A", "X" >>,
    delayed_over_90_minutes |-> << "d", "e", "l", "a", "y", "e", "d", " ", "o", "v", "e", "r", " ", "9", "0", " ", "m", "i", "n", "u", "t", "e", "s" >>,
    an_hour_late |-> << "a", "n", " ", "h", "o", "u", "r", " ", "l", "a", "t", "e" >>,
    under_500_miles |-> << "u", "n", "d", "e", "r", " ", "5", "0", "0", " ", "m", "i", "l", "e", "s" >>,
    rating_below_3 |-> << "r", "a", "t", "i", "n", "g", " ", "b", "e", "l", "o", "w", " ", "3" >>,
    at_least_2_stops |-> << "a", "t", " ", "l", "e", "a", "s", "t", " ", "2", " ", "s", "t", "o", "p", "s" >>,
    severe_delays |-> << "s", "e", "v", "e", "r", "e", " ", "d", "e", "l", "a", "y", "s" >>,
    moderately_late |-> << "m", "o", "d", "e", "r", "a", "t", "e", "l", "y", " ", "l", "a", "t", "e" >>,
    poor_food |-> << "p", "o", "o", "r", " ", "f", "o", "o", "d" >>,
    average_food |-> << "a", "v", "e", "r", "a", "g", "e", " ", "f", "o", "o", "d" >>,
    nonstop |-> << "n", "o", "n", "s", "t", "o", "p" >>,
    poor_service |-> << "p", "o", "o", "r", " ", "s", "e", "r", "v", "i", "c", "e" >> ]

Phrases ==
  << Phrase.flights_from_LAX,
     Phrase.delayed_over_90_minutes,
     Phrase.an_hour_late,
     Phrase.under_500_miles,
     Phrase.rating_below_3,
     Phrase.at_least_2_stops,
     Phrase.severe_delays,
     Phrase.moderately_late,
     Phrase.poor_food,
     Phrase.average_food,
     Phrase.nonstop,
     Phrase.poor_service >>

RECURSIVE Say(_)
\* the phrases with the indices in K, in order, separated by blanks
Say(K) ==
  IF K = {} THEN << >>
  ELSE LET i == CHOOSE x \in K : \A y \in K : x <= y IN
       IF K = {i} THEN Phrases[i] ELSE Phrases[i] \o << " " >> \o Say(K \ {i})

Utterances == { Say(K) : K \in KeySets(1..Len(Phrases), MaxPhrases) }

\* what the collaborator can answer when asked for parameters
LLMReplies ==
  { ReplyRaises,
    ReplyText(<< Punct("{"), Punct("}") >>),
    ReplyText(<< Punct("{"), Quoted("min_delay"), Punct(":"), Number(61), Punct("}") >>),
    ReplyText(<< FenceJson, Punct("{"), Quoted("max_food_satisfaction"), Punct(":"), Number(2),
                 Punct(","), Quoted("min_miles"), Punct(":"), Number(4000), Punct("}"), Fence >>),
    ReplyText(<< Punct("{"), Quoted("max_score"), Punct(":"), Number(2), Punct("}") >>),
    ReplyText(<< Punct("{"), Quoted("severity"), Punct(":"), Quoted("high"), Punct("}") >>),
    ReplyText(<< Punct("["), Number(61), Punct("]") >>),
    ReplyText(<< Number(61) >>),
    ReplyText(<< Quoted("severe") >>),
    ReplyText(<< Word("null") >>),
    ReplyText(<< Word("The"), Word("delay"), Word("is"), Word("severe") >>) }

\* the classifier's replies and the entity bags used with process_query
ProcessLabels == { "analyze_delays", "analyze_satisfaction", "book_flight" }
ProcessEntityBags == BagsUpTo({"origin"}, MaxRawKeys, ExtractedValues)

\* an intent no block of _get_specific_query names
UnregisteredIntents == { "unknown", "book_flight" }
\* what the intent classifier can answer
ClassifierAnswers == AvailableIntents \cup { "book_flight", "" }

StoreRows ==
  { << >>,
    << [journey_count |-> Scalar("42"), avg_delay |-> Scalar("7.5")] >>,
    << [p |-> Node([record_locator |-> Scalar("EPXXW8")])] >>,
    << [full_record |-> PyDict([passenger |-> PyDict([generation |-> Scalar("Boomer")]),
                                 journey |-> Node([feedback_ID |-> Scalar("F_12")])])] >>,
    << [legs |-> PyList(<< Node([flight_number |-> Scalar("12")]) >>)] >>,
    << [route |-> PyObject("Path")] >> }
StoreAnswers ==
  { Records(rs) : rs \in StoreRows }
    \cup { StoreError("ServiceUnavailable"), StoreError("CypherSyntaxError") }

-----------------------------------------------------------------------------
(* The state machine: one request per behaviour (the engine keeps no state  *)
(* between requests)                                                        *)

NoOut == [raised |-> FALSE, results |-> NoResults, query |-> NoQuery]
NoRoute == [query |-> NoQuery, specific |-> FALSE, index |-> 0]
\* process_query returned (intent, entities, parameters) to a caller that takes
\* the three as given (preprocessing.py 472, test_queries.py 201); what its
\* passes did is not followed there
Returned_process_query(i, ents, parameters) ==
  Processed(FALSE, i, ents, parameters, EmptyBag, EmptyBag, << >>, << >>)

\* user queries given to get_baseline_results
BaselineUtterances == { Phrase.flights_from_LAX, Phrase.severe_delays }

\* what the parameter inference of process_query (lines 435-443: explicit pass,
\* semantic pass, merge) yields for each of them
InferredParameters ==
  [ user_input \in BaselineUtterances |->
      merge_missing(extract_parameters_from_text(user_input),
                    infer_semantic_parameters(user_input).bag) ]

NoProc == Processed(FALSE, "", EmptyBag, EmptyBag, EmptyBag, EmptyBag, << >>, << >>)

InitRequest ==
  /\ pc = "idle"
  /\ caller = ""
  /\ intent = ""
  /\ entities = EmptyBag
  /\ storeCalls = << >>
  /\ out = NoOut
  /\ norm1 = Returned(EmptyBag)
  /\ norm2 = Returned(EmptyBag)
  /\ route = NoRoute
  /\ utterance = << >>
  /\ proc = NoProc
  /\ report = NoResults

\* the driver is the configured one, or None when the configuration gave none
\* (Neo4jRetriever.__init__, lines 12-13)
Init == InitRequest /\ driver \in {"ok", "none"}

\* run_query(i, raw) called by `c`; `answer` is the store's behaviour if called
Serve(c, i, raw, answer) ==
  \E r \in { run_query(i, raw, driver, answer) } :
    /\ pc' = "done"
    /\ caller' = c
    /\ intent' = i
    /\ entities' = raw
    /\ out' = [raised |-> r.raised, results |-> r.results, query |-> r.query]
    /\ storeCalls' = storeCalls \o r.calls
    /\ UNCHANGED << driver, norm1, norm2, route, report >>

\* a caller of the retriever calls run_query directly (as base_retrieve.py 941-946)
DirectRunQuery ==
  /\ pc = "idle"
  /\ \E i \in AvailableIntents \cup UnregisteredIntents, raw \in RawBags,
        answer \in StoreAnswers :
       /\ Serve("run_query", i, raw, answer)
       /\ UNCHANGED << utterance, proc >>

\* LLMHandler.get_baseline_results, llm_handler.py lines 59-85: user_query is
\* classified, its entities are extracted, and run_query is given the entities
GetBaselineResults ==
  /\ pc = "idle"
  /\ \E user_query \in BaselineUtterances, label \in ClassifierAnswers,
        ents \in ExtractedBags, answer \in StoreAnswers :
       /\ Serve("get_baseline_results", classify_intent(label), ents, answer)
       /\ utterance' = user_query
       /\ UNCHANGED proc

\* preprocessing.main (lines 472-480) and test_queries.run_all_tests (201-210)
\* when process_query returns "unknown": nothing is run
MainUnknown ==
  /\ pc = "idle"
  /\ \E label \in ClassifierAnswers :
       /\ classify_intent(label) = "unknown"
       /\ pc' = "done"
       /\ caller' = "main"
       /\ intent' = "unknown"
       /\ entities' = EmptyBag
       /\ UNCHANGED << driver, storeCalls, out, norm1, norm2, route, utterance, proc, report >>

\* preprocessing.main (lines 482-487) and test_queries.run_all_tests (212-216)
MainRunQuery ==
  /\ pc = "idle"
  /\ \E label \in ClassifierAnswers, ents \in ExtractedBags, parameters \in ParameterBags,
        answer \in StoreAnswers :
       /\ classify_intent(label) # "unknown"
       /\ Serve("main", classify_intent(label), merge(ents, parameters), answer)
       /\ proc' = Returned_process_query(classify_intent(label), ents, parameters)
       /\ UNCHANGED utterance

\* test_queries.run_all_tests (lines 199-243), one question: process_query,
\* merge, run_query, serialize_results; an exception of run_query is caught at
\* line 241 and query_results stays None
RunAllTests ==
  /\ pc = "idle"
  /\ \E label \in ClassifierAnswers, ents \in ProcessEntityBags, parameters \in ParameterBags,
        answer \in StoreAnswers :
       LET i == classify_intent(label) IN
       \E r \in { run_query(i, merge(ents, parameters), driver, answer) } :
       /\ i # "unknown"
       /\ pc' = "done"
       /\ caller' = "run_all_tests"
       /\ intent' = i
       /\ entities' = merge(ents, parameters)
       /\ out' = [raised |-> r.raised, results |-> r.results, query |-> r.query]
       /\ storeCalls' = storeCalls \o r.calls
       /\ report' = IF r.raised THEN NoResults ELSE serialize_results(r.results)
       /\ proc' = Returned_process_query(i, ents, parameters)
       /\ UNCHANGED << driver, norm1, norm2, route, utterance >>

Next == DirectRunQuery \/ GetBaselineResults \/ MainUnknown \/ MainRunQuery \/ RunAllTests

Spec == Init /\ [][Next]_vars

\* normalize_entities applied to a raw bag, and again to its own result
Normalize ==
  /\ pc = "idle"
  /\ \E raw \in NormBags :
    /\ pc' = "done"
    /\ caller' = "normalize_entities"
    /\ entities' = raw
    /\ norm1' = normalize_entities(raw)
    /\ norm2' = IF normalize_entities(raw).raised THEN Raised
                ELSE normalize_entities(normalize_entities(raw).bag)
    /\ UNCHANGED << intent, driver, storeCalls, out, route, utterance, proc, report >>

InitPure == InitRequest /\ driver = "ok"

SpecNorm == InitPure /\ [][Normalize]_vars

\* get_query_for_intent applied to an intent and a bag
Route ==
  /\ pc = "idle"
  /\ \E i \in AvailableIntents \cup UnregisteredIntents, bag \in RouteBags :
    /\ pc' = "done"
    /\ caller' = "get_query_for_intent"
    /\ intent' = i
    /\ entities' = bag
    /\ route' = [query |-> get_query_for_intent(i, bag),
                 specific |-> ReturnsSpecific(i, bag),
                 index |-> SpecificIndex(i, bag)]
    /\ UNCHANGED << driver, storeCalls, out, norm1, norm2, utterance, proc, report >>

SpecRoute == InitPure /\ [][Route]_vars

\* process_query applied to a user input (preprocessing.py lines 416-457)
ProcessQuery ==
  /\ pc = "idle"
  /\ \E u \in Utterances :
       \E passes \in { local_passes(u) } :
         \E label \in ProcessLabels, ents \in ProcessEntityBags, reply \in LLMReplies :
           /\ pc' = "done"
           /\ caller' = "process_query"
           /\ utterance' = u
           /\ proc' = process_query(passes, label, ents, reply)
           /\ UNCHANGED << intent, entities, driver, storeCalls, out, norm1, norm2, route, report >>

SpecProcess == InitPure /\ [][ProcessQuery]_vars

\* the retriever's requests and process_query side by side
SpecEngine == Init /\ [][Next \/ ProcessQuery]_vars
-----------------------------------------------------------------------------
(* Properties of template matching (checked under SpecRoute)               *)

\* `$k` occurs in the query text q as a bound parameter
References(q, k) == \E n \in 1..Len(q) : q[n] = "$" \o k

\* the keys whose use the completeness check demands
KeyVocabulary ==
  { "generation", "loyalty_tier", "fleet_type", "origin", "dest", "class",
    "min_delay", "max_delay", "min_miles", "max_miles", "min_legs", "max_legs",
    "min_food_satisfaction", "max_food_satisfaction" }

\* the template t of the registry can serve the bag without losing a constraint:
\* its required slots are present and it references every vocabulary key present
Complete(t, bag) ==
  /\ t.required \subseteq DOMAIN bag
  /\ \A k \in (DOMAIN bag) \cap KeyVocabulary : References(t.query, k)

Routed == pc = "done" /\ caller = "get_query_for_intent"

\* C1: the query get_query_for_intent returns references `$k` for every key k of
\* the bag that belongs to the key vocabulary; when the canned template that
\* applies leaves such a key unused, the fallback query is what is returned.
C1_EveryKeyReferenced ==
  Routed =>
    /\ \A k \in (DOMAIN entities) \cap KeyVocabulary : References(route.query, k)
    /\ ( /\ route.index # 0
         /\ ~Complete(TemplatesOf(intent)[route.index], entities) )
       => route.query = _build_fallback_query(entities)

\* C1 witness: analyze_delays with origin and min_delay; the first template that
\* applies (min_delay alone) does not use $origin, and the fallback is returned
C1_Witness ==
  /\ Routed
  /\ intent = "analyze_delays"
  /\ DOMAIN entities = {"origin", "min_delay"}
  /\ route.index # 0
  /\ ~References(TemplatesOf(intent)[route.index].query, "origin")
  /\ route.query = _build_fallback_query(entities)
  /\ References(route.query, "origin")

\* C2: whenever some canned template of the intent has its required slots in the
\* bag and references every vocabulary key of the bag, the query returned is
\* such a template (matching goes on past a candidate that fails completeness
\* and does not go to the fallback).
C2_MatchingContinues ==
  Routed =>
    LET ts == TemplatesOf(intent)
        complete == { n \in 1..Len(ts) : Complete(ts[n], entities) }
    IN  complete # {} => \E n \in complete : route.query = ts[n].query

\* C3: the first template of the intent whose required slots are all present
\* has the largest required-slot set among the templates of that intent whose
\* required slots are all present.
C3_MostSpecificFirst ==
  Routed =>
    LET ts == TemplatesOf(intent)
        applicable == { n \in 1..Len(ts) : ts[n].required \subseteq DOMAIN entities }
    IN  \A n \in applicable :
          (\A m \in applicable : n <= m) =>
            \A m \in applicable :
              Cardinality(ts[m].required) <= Cardinality(ts[n].required)

-----------------------------------------------------------------------------
(* Properties of run_query and its callers (checked under Spec)            *)

\* run_query was called and returned
Returned_run_query == pc = "done" /\ caller # "" /\ ~(caller = "main" /\ intent = "unknown")

\* C4: when the intent lies outside the known intent set, no call is issued to
\* the graph store and no rows are returned, whichever caller led to the request.
C4_UnknownIntentNoStoreCall ==
  (pc = "done" /\ intent \notin AvailableIntents) =>
    /\ storeCalls = << >>
    /\ out.results.kind # "list"

\* C5: when execute_query raises, run_query raises nothing and returns an error
\* value that carries the store's message.
C5_StoreFailureIsAValue ==
  ( /\ pc = "done"
    /\ Len(storeCalls) > 0
    /\ storeCalls[Len(storeCalls)].answer.kind = "raise" )
  => /\ ~out.raised
     /\ out.results.kind = "str"
     /\ out.results.text = << "Database Error:", storeCalls[Len(storeCalls)].answer.msg >>
     /\ out.results.rows = << >>

\* C5 witness: the store was called, raised, and run_query returned the message
C5_Witness ==
  /\ pc = "done"
  /\ caller = "get_baseline_results"
  /\ Len(storeCalls) = 1
  /\ storeCalls[1].answer = StoreError("ServiceUnavailable")
  /\ out.results.kind = "str"
  /\ out.results.text = << "Database Error:", "ServiceUnavailable" >>

\* C6: run_query returns the resolved query text as second component whenever
\* it returns, also when execution failed (store error or no driver).
C6_QueryTextAlwaysReturned ==
  (Returned_run_query /\ ~out.raised) =>
    /\ out.query # NoQuery
    /\ out.query = get_query_for_intent(intent, clean_params_of(entities))

\* C7: when the bag is empty and the intent has no default template, run_query
\* returns the "could not construct query" error naming the entity keys, and
\* nothing is sent to the store.
C7_EmptyBagUnresolvable ==
  ( /\ Returned_run_query
    /\ ~out.raised
    /\ intent \in {"search_network", "analyze_issues", "lookup_details", "compare_routes"}
    /\ clean_params_of(entities) = EmptyBag )
  => /\ storeCalls = << >>
     /\ out.results.kind = "str"
     /\ out.results = no_query_result(intent, EmptyBag).results

\* C9: normalization as run by run_query raises nothing, whatever the values of
\* the raw bag (None and non-strings included), and leaves the keys it does not
\* know as they are.
C9_NormalizationNeverFails ==
  Returned_run_query =>
    /\ ~out.raised
    /\ ~normalize_entities(entities).raised
    /\ \A k \in (DOMAIN entities) \cap UnknownKeys :
         /\ k \in DOMAIN normalize_entities(entities).bag
         /\ normalize_entities(entities).bag[k] = entities[k]

-----------------------------------------------------------------------------
(* Properties of normalize_entities (checked under SpecNorm)               *)

Normalized == pc = "done" /\ caller = "normalize_entities"
AllStrings(bag) == \A k \in DOMAIN bag : IsStr(bag[k])

\* C8: for a bag of string values, normalizing the normalized bag changes nothing.
C8_NormalizeIdempotent ==
  (Normalized /\ AllStrings(entities)) =>
    /\ ~norm1.raised
    /\ ~norm2.raised
    /\ norm2.bag = norm1.bag

\* C8 witness: an alias key and a plural generation were both rewritten by the
\* first pass, and the second pass left the result alone
C8_Witness ==
  /\ Normalized
  /\ AllStrings(entities)
  /\ DOMAIN entities = {"generation", "loyalty_level"}
  /\ entities["generation"] = StrVal(Input.BABY_BOOMERS)
  /\ entities["loyalty_level"] = StrVal(Input.Gold)
  /\ norm1.bag = [generation |-> StrVal(Lit.Boomer), loyalty_tier |-> StrVal(Lit.premier_gold)]
  /\ norm2 = norm1

\* the alternate key of each canonical key that key mapping rewrites
AliasPairs ==
  { << "origin_code", "origin" >>, << "dest_code", "dest" >>,
    << "vip_id", "record_locator" >>, << "loyalty_level", "loyalty_tier" >>,
    << "passenger_class", "class" >> }

\* C10: when the raw bag holds an alternate key and its canonical key, the
\* canonical key's own value wins: the result is the one normalization gives
\* without the alternate key.
C10_CanonicalKeyWins ==
  (Normalized /\ ~norm1.raised) =>
    \A p \in AliasPairs :
      ({p[1], p[2]} \subseteq DOMAIN entities) =>
        /\ ~normalize_entities(Pop(entities, p[1])).raised
        /\ norm1.bag[p[2]] = normalize_entities(Pop(entities, p[1])).bag[p[2]]


\* C11: after normalization no alternate-spelling key is left in the bag: each
\* of origin_code, dest_code, destination, vip_id, loyalty_level and
\* passenger_class has been rewritten to its canonical key.
C11_NoAlternateKeyRemains ==
  (Normalized /\ ~norm1.raised) =>
    LET canonical == [ origin_code |-> "origin", dest_code |-> "dest",
                       destination |-> "dest", vip_id |-> "record_locator",
                       loyalty_level |-> "loyalty_tier", passenger_class |-> "class" ]
    IN  \A a \in DOMAIN canonical :
          /\ a \notin DOMAIN norm1.bag
          /\ a \in DOMAIN entities => canonical[a] \in DOMAIN norm1.bag

\* a value the pruning step is to remove: None or the empty string
IsBlank(v) == v = None \/ (IsStr(v) /\ v.s = << >>)

\* C12: no key bound to None or to the empty string reaches template matching,
\* fallback synthesis or parameter binding: the bag bound by execute_query (the
\* same bag get_query_for_intent was given) holds no such value.
C12_NoBlankValueDownstream ==
  (Returned_run_query /\ ~out.raised) =>
    /\ \A k \in DOMAIN clean_params_of(entities) : ~IsBlank(clean_params_of(entities)[k])
    /\ \A n \in 1..Len(storeCalls) :
         \A k \in DOMAIN storeCalls[n].params : ~IsBlank(storeCalls[n].params[k])

-----------------------------------------------------------------------------
(* Properties of process_query (checked under SpecProcess)                 *)

Processed_query == pc = "done" /\ caller = "process_query"

\* what the collaborator's reply holds when it is a JSON object, else nothing
ReplyObject(reply) ==
  IF reply.kind = "text" /\ json_loads(strip_fences(reply.tokens)).ok
       /\ json_loads(strip_fences(reply.tokens)).value.kind = "dict"
  THEN json_loads(strip_fences(reply.tokens)).value.items
  ELSE EmptyBag

\* C13: in the bag process_query returns, a key the explicit-numeric pass
\* produced keeps the explicit value, a key only the semantic pass produced
\* keeps the semantic value, and a value of the external pass stands only under
\* a key neither of the two produced.
C13_EarlierPassWins ==
  (Processed_query /\ ~proc.raised) =>
    /\ \A k \in DOMAIN proc.explicit :
         k \in DOMAIN proc.parameters /\ proc.parameters[k] = proc.explicit[k]
    /\ \A k \in (DOMAIN proc.semantic) \ (DOMAIN proc.explicit) :
         k \in DOMAIN proc.parameters /\ proc.parameters[k] = proc.semantic[k]
    /\ \A k \in (DOMAIN proc.parameters) \ ((DOMAIN proc.explicit) \cup (DOMAIN proc.semantic)) :
         /\ Len(proc.llm_calls) = 1
         /\ k \in DOMAIN ReplyObject(proc.llm_calls[1])
         /\ proc.parameters[k] = ReplyObject(proc.llm_calls[1])[k]

\* C13 witness: "delayed over 90 minutes severe delays": the explicit pass gives
\* min_delay 90, the semantic pass min_delay 61, and 90 is returned
C13_Witness ==
  /\ Processed_query
  /\ ~proc.raised
  /\ utterance = Phrase.delayed_over_90_minutes \o << " " >> \o Phrase.severe_delays
  /\ proc.explicit = [min_delay |-> IntVal(90)]
  /\ proc.semantic = [min_delay |-> IntVal(61)]
  /\ proc.parameters = [min_delay |-> IntVal(90)]

\* C14: the external inference is called during process_query only if the user
\* input holds a trigger word and the explicit and semantic passes produced no
\* parameter; it is not called when either produced one, nor for an unknown
\* intent, and it is called at most once.
C14_ExternalOnlyWhenNeeded ==
  Processed_query =>
    /\ Len(proc.llm_calls) <= 1
    /\ proc.llm_calls # << >> =>
         /\ proc.intent # "unknown"
         /\ any_in(Words.needs_llm, str_lower(utterance))
         /\ proc.explicit = EmptyBag
         /\ proc.semantic = EmptyBag

\* C14 witness: "poor service" holds the trigger word `poor`, neither local pass
\* produces a parameter, and the collaborator was asked
C14_Witness ==
  /\ Processed_query
  /\ utterance = Phrase.poor_service
  /\ proc.explicit = EmptyBag
  /\ proc.semantic = EmptyBag
  /\ Len(proc.llm_calls) = 1
  /\ proc.parameters = [min_delay |-> IntVal(61)]

\* C15: a reply of the collaborator that is no JSON object of parameters (text
\* that is no JSON, an exception, or JSON that is a list, number, string or
\* null) gives an empty parameter bag; process_query returns and raises nothing.
C15_BadReplyDegrades ==
  ( /\ Processed_query
    /\ Len(proc.llm_calls) = 1
    /\ \/ proc.llm_calls[1].kind = "raise"
       \/ ~json_loads(strip_fences(proc.llm_calls[1].tokens)).ok
       \/ json_loads(strip_fences(proc.llm_calls[1].tokens)).value.kind # "dict" )
  => /\ ~proc.raised
     /\ proc.parameters = EmptyBag

\* C16: the explicit-numeric and semantic passes raise nothing, whatever
\* qualitative terms the user input holds: when the collaborator was not
\* called, process_query of a known intent returns.
C16_LocalPassesNeverRaise ==
  (Processed_query /\ proc.intent # "unknown" /\ proc.llm_calls = << >>) => ~proc.raised

\* C17: every key of the parameter bag process_query returns belongs to the
\* fixed vocabulary of eight thresholds, whichever pass produced it.
C17_ParameterVocabulary ==
  (Processed_query /\ ~proc.raised) =>
    DOMAIN proc.parameters \subseteq
      { "min_delay", "max_delay", "min_food_satisfaction", "max_food_satisfaction",
        "min_miles", "max_miles", "min_legs", "max_legs" }


-----------------------------------------------------------------------------
(* Properties of the fallback query (checked under SpecRoute)              *)

\* the fallback query is what get_query_for_intent returned
FallbackReturned == Routed /\ ~route.specific

\* the part of the query q in front of its RETURN clause: the MATCH patterns
\* and the WHERE clause
BeforeReturn(q) ==
  SubSeq(q, 1, (CHOOSE n \in 1..Len(q) : q[n] = "RETURN") - 1)

\* the token sequence part occurs in q
Occurs(q, part) ==
  \E n \in 1..(Len(q) - Len(part) + 1) : SubSeq(q, n, n + Len(part) - 1) = part

\* how many times `$k` is written in q
Bindings(q, k) == Cardinality({ n \in 1..Len(q) : q[n] = "$" \o k })

\* the filter the fallback query places on `$k` (lines 819-870)
FallbackFilter(k) ==
  CASE k = "generation" -> << "p.generation", "=", "$generation" >>
    [] k = "loyalty_tier" -> << "p.loyalty_program_level", "=", "$loyalty_tier" >>
    [] k = "fleet_type" -> << "f.fleet_type_description", "CONTAINS", "$fleet_type" >>
    [] k = "origin" ->
         << "MATCH", "(f)-[:DEPARTS_FROM]->(o:Airport", "{station_code:", "$origin", "})" >>
    [] k = "dest" ->
         << "MATCH", "(f)-[:ARRIVES_AT]->(d:Airport", "{station_code:", "$dest", "})" >>
    [] k = "class" -> << "j.passenger_class", "=", "$class" >>
    [] k = "min_delay" -> << "j.arrival_delay_minutes", ">=", "$min_delay" >>
    [] k = "max_delay" -> << "j.arrival_delay_minutes", "<=", "$max_delay" >>
    [] k = "min_food_satisfaction" ->
         << "j.food_satisfaction_score", ">=", "$min_food_satisfaction" >>
    [] k = "max_food_satisfaction" ->
         << "j.food_satisfaction_score", "<=", "$max_food_satisfaction" >>
    [] k = "min_miles" -> << "j.actual_flown_miles", ">=", "$min_miles" >>
    [] k = "max_miles" -> << "j.actual_flown_miles", "<=", "$max_miles" >>
    [] k = "min_legs" -> << "j.number_of_legs", ">=", "$min_legs" >>
    [] k = "max_legs" -> << "j.number_of_legs", "<=", "$max_legs" >>

\* C18: the fallback query binds `$k` only for keys k of the bag, and for each
\* key of the bag among generation, loyalty_tier, fleet_type, origin, dest,
\* class and the eight numeric thresholds it holds the filter on `$k` exactly
\* once, in a MATCH pattern or in the WHERE clause, and binds `$k` nowhere else.
C18_FallbackBindsExactlyPresentKeys ==
  FallbackReturned =>
    LET q == route.query IN
    /\ \A k \in (RouteKeys \cup KeyVocabulary) \ DOMAIN entities : ~References(q, k)
    /\ \A k \in (DOMAIN entities) \cap KeyVocabulary :
         /\ Occurs(BeforeReturn(q), FallbackFilter(k))
         /\ Bindings(q, k) = 1

\* C18 witness: an unregistered intent with generation, origin, min_delay and an
\* unknown key; the fallback query filters on the three and binds nothing else
C18_Witness ==
  /\ FallbackReturned
  /\ intent = "book_flight"
  /\ DOMAIN entities = { "generation", "origin", "min_delay", "seat" }
  /\ route.query = _build_fallback_query(entities)
  /\ Occurs(route.query, << "WHERE", "p.generation", "=", "$generation", "AND",
                            "j.arrival_delay_minutes", ">=", "$min_delay" >>)
  /\ Occurs(route.query, FallbackFilter("origin"))
  /\ ~References(route.query, "seat")

\* C19: whenever the bag is not empty and the query returned is not a canned
\* template, the query returned binds `$k` for every slot k of the bag, the
\* identifier slots record_locator and feedback_id included.
C19_FallbackReferencesEverySlot ==
  (FallbackReturned /\ entities # EmptyBag) =>
    \A k \in (DOMAIN entities) \cap SlotKeys : References(route.query, k)

-----------------------------------------------------------------------------
(* Properties of result serialization (checked under Spec)                 *)

\* no store-native wrapper among the values vs or directly inside them
NoWrapperIn(vs) ==
  \A v \in vs :
    /\ v.tag # "node"
    /\ v.tag \in { "dict", "list" } =>
         \A k \in DOMAIN v.props : v.props[k].tag # "node"

\* C20: the rows run_query returns hold no store-native wrapper, neither as a
\* column value nor inside a plain map or a list held by a column.
C20_SerializationIsDeep ==
  (Returned_run_query /\ ~out.raised /\ out.results.kind = "list") =>
    \A n \in 1..Len(out.results.rows) :
      NoWrapperIn(Range(out.results.rows[n]))

\* run_all_tests ran a query and run_query returned rows
Tested == pc = "done" /\ caller = "run_all_tests" /\ ~out.raised /\ out.results.kind = "list"

\* C21: the rows run_query returns are the serialization of the raw rows the
\* store answered, serializing them again changes nothing, and
\* test_queries.serialize_results returns them unchanged.
C21_SerializationIdempotent ==
  Tested =>
    /\ out.results.rows = serialize_records(storeCalls[1].answer.records)
    /\ serialize_records(out.results.rows) = out.results.rows
    /\ report = out.results

-----------------------------------------------------------------------------
(* The route-with-delay scenario (checked under SpecRoute)                 *)

\* get_query_for_intent was given analyze_delays and a bag of exactly origin,
\* dest and min_delay
RouteDelayRequest ==
  Routed /\ intent = "analyze_delays" /\ DOMAIN entities = { "origin", "dest", "min_delay" }

\* C22 as stated: for analyze_delays with origin, dest and min_delay no canned
\* template is selected and the query returned is the fallback query.
C22_RouteDelayFallsBack ==
  RouteDelayRequest =>
    /\ ~route.specific
    /\ route.query = _build_fallback_query(entities)

\* C22 amended: for analyze_delays with origin, dest and min_delay the first
\* canned delay template is selected (it binds all three keys, so the
\* completeness check passes) and not the fallback query; the query returned is
\* anchored on Journey-ON-Flight, matches both airports and filters on
\* arrival delay >= $min_delay.
C22_RouteDelayTemplateSelected ==
  RouteDelayRequest =>
    /\ route.specific
    /\ route.index = 1
    /\ route.query # _build_fallback_query(entities)
    /\ route.query[2] = "(j:Journey)-[:ON]->(f:Flight)-[:DEPARTS_FROM]->(o:Airport"
    /\ Occurs(BeforeReturn(route.query), << "{station_code:", "$origin", "})" >>)
    /\ Occurs(BeforeReturn(route.query), << "{station_code:", "$dest", "})" >>)
    /\ Occurs(BeforeReturn(route.query),
              << "WHERE", "j.arrival_delay_minutes", ">=", "$min_delay" >>)

\* C22 witness: the request has been routed and answered with the template of
\* lines 309-316
C22_Witness ==
  /\ RouteDelayRequest
  /\ route.specific
  /\ route.query = Templates_analyze_delays[1].query

-----------------------------------------------------------------------------
(* Parameters on the way to run_query (checked under Spec)                 *)

\* C23: on every path from a user utterance to run_query the thresholds that
\* parameter inference produces are keys of the bag run_query is given: those
\* process_query returned to main and run_all_tests, and those the inference
\* yields for the utterance given to get_baseline_results.
C23_ThresholdsReachRunQuery ==
  /\ (Returned_run_query /\ caller \in { "main", "run_all_tests" }) =>
       DOMAIN proc.parameters \subseteq DOMAIN entities
  /\ (Returned_run_query /\ caller = "get_baseline_results") =>
       DOMAIN InferredParameters[utterance] \subseteq DOMAIN entities

-----------------------------------------------------------------------------
(* No retries (checked under SpecEngine)                                   *)

\* C24: one request issues at most one execute_query call, and when that call
\* fails run_query ends with an error message as its result and no second
\* call; one process_query call asks the intent classifier at most once and the
\* external parameter inference at most once.
C24_NoRetries ==
  /\ Len(storeCalls) <= 1
  /\ (Len(storeCalls) >= 1 /\ storeCalls[1].answer.kind = "raise") =>
       /\ Returned_run_query
       /\ ~out.raised
       /\ out.results.kind = "str"
       /\ Len(storeCalls) = 1
  /\ Processed_query =>
       /\ Len(proc.classifier_calls) <= 1
       /\ Len(proc.llm_calls) <= 1

\* C24 witness: the store failed on the only call made, and the request ended
\* with the error message
C24_Witness ==
  /\ Returned_run_query
  /\ Len(storeCalls) = 1
  /\ storeCalls[1].answer = StoreError("ServiceUnavailable")
  /\ out.results.kind = "str"

-----------------------------------------------------------------------------
(* Conventions of the resolved queries (checked under SpecRoute)           *)

\* the lower-bound and the upper-bound threshold slots
MinKeys == { "min_delay", "min_miles", "min_legs", "min_food_satisfaction" }
MaxKeys == { "max_delay", "max_miles", "max_legs", "max_food_satisfaction", "max_score" }

\* C25: in every query get_query_for_intent returns, canned or fallback, each
\* `$min_*` placeholder is the right-hand side of `>=` and each `$max_*`
\* placeholder the right-hand side of `<=`; none is compared with `>` or `<`.
C25_InclusiveBounds ==
  Routed =>
    \A n \in 1..Len(route.query) :
      /\ (\E k \in MinKeys : route.query[n] = "$" \o k) =>
           (n > 1 /\ route.query[n - 1] = ">=")
      /\ (\E k \in MaxKeys : route.query[n] = "$" \o k) =>
           (n > 1 /\ route.query[n - 1] = "<=")

-----------------------------------------------------------------------------
(* Shape of the fallback query (checked under SpecRoute)                   *)

\* the RETURN clause of the query q: the tokens after RETURN, up to the line end
ReturnClause(q) ==
  LET r == CHOOSE n \in 1..Len(q) : q[n] = "RETURN"
      e == CHOOSE n \in (r + 1)..Len(q) :
             q[n] = "\n" /\ \A m \in (r + 1)..(n - 1) : q[m] # "\n"
  IN  SubSeq(q, r + 1, e - 1)

CategoricalSlots == { "generation", "loyalty_tier", "fleet_type", "origin", "dest", "class" }

\* the column the fallback query projects for a categorical slot (lines 820-852)
FallbackColumn(k) ==
  CASE k = "generation" -> << "p.generation", "AS", "generation" >>
    [] k = "loyalty_tier" -> << "p.loyalty_program_level", "AS", "loyalty_tier" >>
    [] k = "fleet_type" -> << "f.fleet_type_description", "AS", "fleet_type" >>
    [] k = "origin" -> << "o.station_code", "AS", "origin" >>
    [] k = "dest" -> << "d.station_code", "AS", "destination" >>
    [] k = "class" -> << "j.passenger_class", "AS", "class" >>

\* C26: the fallback query projects the journey count, the mean food
\* satisfaction and the mean delay; in front of them one column for each
\* categorical slot of the bag and none for a slot that is absent; after them
\* avg_miles exactly when min_miles or max_miles is present and avg_legs exactly
\* when min_legs or max_legs is present; nothing else; and the query ends with
\* ORDER BY journey_count DESC LIMIT 50.
C26_FallbackProjection ==
  FallbackReturned =>
    LET q == route.query
        ret == ReturnClause(q)
        K == DOMAIN entities
        cats == K \cap CategoricalSlots
        miles == \E k \in { "min_miles", "max_miles" } : k \in K
        legs == \E k \in { "min_legs", "max_legs" } : k \in K
        columns == 3 + Cardinality(cats) + (IF miles THEN 1 ELSE 0) + (IF legs THEN 1 ELSE 0)
    IN  /\ \A k \in CategoricalSlots : (k \in K) <=> Occurs(ret, FallbackColumn(k))
        /\ Len(ret) = 4 * columns - 1
        /\ SubSeq(ret, 4 * Cardinality(cats) + 1, 4 * Cardinality(cats) + 11)
             = << "count(j)", "AS", "journey_count", ",",
                  "avg(j.food_satisfaction_score)", "AS", "avg_food_satisfaction", ",",
                  "avg(j.arrival_delay_minutes)", "AS", "avg_delay" >>
        /\ miles <=> Occurs(ret, << "avg(j.actual_flown_miles)", "AS", "avg_miles" >>)
        /\ legs <=> Occurs(ret, << "avg(j.number_of_legs)", "AS", "avg_legs" >>)
        /\ SubSeq(q, Len(q) - 5, Len(q))
             = << "ORDER", "BY", "journey_count", "DESC", "LIMIT", "50" >>

\* C26 witness: a fallback query for class, dest and max_legs: two leading
\* columns, the three aggregates, and avg_legs
C26_Witness ==
  /\ FallbackReturned
  /\ DOMAIN entities = { "class", "dest", "max_legs" }
  /\ ReturnClause(route.query)
       = << "j.passenger_class", "AS", "class", ",",
            "d.station_code", "AS", "destination", ",",
            "count(j)", "AS", "journey_count", ",",
            "avg(j.food_satisfaction_score)", "AS", "avg_food_satisfaction", ",",
            "avg(j.arrival_delay_minutes)", "AS", "avg_delay", ",",
            "avg(j.number_of_legs)", "AS", "avg_legs" >>

\* the patterns a first MATCH can hold, by what they traverse
JourneyOnly == "(j:Journey)"
PassengerJourney == "(p:Passenger)-[:TOOK]->(j:Journey)"
JourneyFlight == "(j:Journey)-[:ON]->(f:Flight)"
PassengerJourneyFlight == "(p:Passenger)-[:TOOK]->(j:Journey)-[:ON]->(f:Flight)"

\* C27: the first MATCH of the fallback query holds a pattern over Journey; it
\* traverses Passenger-TOOK exactly when generation or loyalty_tier is in the
\* bag and Journey-ON-Flight exactly when fleet_type, origin or dest is, also
\* when keys of both groups are present.
C27_FallbackAnchor ==
  FallbackReturned =>
    LET K == DOMAIN entities
        passenger == \E k \in { "generation", "loyalty_tier" } : k \in K
        flight == \E k \in { "fleet_type", "origin", "dest" } : k \in K
        pattern == route.query[2]
    IN  /\ route.query[1] = "MATCH"
        /\ pattern \in { JourneyOnly, PassengerJourney, JourneyFlight, PassengerJourneyFlight }
        /\ passenger <=> pattern \in { PassengerJourney, PassengerJourneyFlight }
        /\ flight <=> pattern \in { JourneyFlight, PassengerJourneyFlight }

\* C27 witness: generation and origin together: the first MATCH goes from
\* Passenger over Journey to Flight
C27_Witness ==
  /\ FallbackReturned
  /\ DOMAIN entities = { "generation", "origin" }
  /\ SubSeq(route.query, 1, 2) = << "MATCH", PassengerJourneyFlight >>

RECURSIVE SplitLines(_)
\* the lines of the query q, each a token sequence
SplitLines(q) ==
  IF \A n \in 1..Len(q) : q[n] # "\n" THEN << q >>
  ELSE LET e == CHOOSE n \in 1..Len(q) : q[n] = "\n" /\ \A m \in 1..(n - 1) : q[m] # "\n"
       IN  << SubSeq(q, 1, e - 1) >> \o SplitLines(SubSeq(q, e + 1, Len(q)))

\* the graph variables a MATCH pattern of the fallback query introduces
Introduces ==
  [ pattern \in { JourneyOnly, PassengerJourney, JourneyFlight, PassengerJourneyFlight,
                  "(f)-[:DEPARTS_FROM]->(o:Airport", "(f)-[:ARRIVES_AT]->(d:Airport" } |->
      CASE pattern = JourneyOnly -> { "j" }
        [] pattern = PassengerJourney -> { "p", "j" }
        [] pattern = JourneyFlight -> { "j", "f" }
        [] pattern = PassengerJourneyFlight -> { "p", "j", "f" }
        [] pattern = "(f)-[:DEPARTS_FROM]->(o:Airport" -> { "o" }
        [] pattern = "(f)-[:ARRIVES_AT]->(d:Airport" -> { "d" } ]

\* the graph variable each expression of a WHERE condition or of a RETURN
\* column reads
VariableOf ==
  [ e \in { "p.generation", "p.loyalty_program_level" } |-> "p" ]
  @@ [ e \in { "f.fleet_type_description" } |-> "f" ]
  @@ [ e \in { "o.station_code" } |-> "o" ]
  @@ [ e \in { "d.station_code" } |-> "d" ]
  @@ [ e \in { "j.passenger_class", "j.arrival_delay_minutes", "j.food_satisfaction_score",
               "j.actual_flown_miles", "j.number_of_legs", "count(j)",
               "avg(j.food_satisfaction_score)", "avg(j.arrival_delay_minutes)",
               "avg(j.actual_flown_miles)", "avg(j.number_of_legs)" } |-> "j" ]

\* the expressions of a clause: after its keyword, every fourth token
\* (expression, operator or AS, operand or alias, separator)
Expressions(clause) == { clause[n] : n \in { m \in 2..Len(clause) : m % 4 = 2 } }

\* C28: for every bag, the empty one and one of unrecognized keys included, the
\* fallback query is one or more MATCH lines, then at most one WHERE line, which
\* holds at least one condition, then a RETURN line, then the ORDER BY ... LIMIT
\* line; and every graph variable an expression of WHERE or RETURN reads is
\* introduced by a MATCH pattern of the query.
C28_FallbackWellFormed ==
  FallbackReturned =>
    LET ls == SplitLines(route.query)
        last == Len(ls)
        hasWhere == last >= 3 /\ ls[last - 2][1] = "WHERE"
        matches == IF hasWhere THEN last - 3 ELSE last - 2
        introduced == UNION { Introduces[ls[n][2]] : n \in 1..matches }
        read == Expressions(ls[last - 1])
                  \cup (IF hasWhere THEN Expressions(ls[last - 2]) ELSE {})
    IN  /\ matches >= 1
        /\ \A n \in 1..matches :
             /\ Len(ls[n]) >= 2
             /\ ls[n][1] = "MATCH"
             /\ ls[n][2] \in DOMAIN Introduces
        /\ hasWhere => Len(ls[last - 2]) >= 4
        /\ ls[last - 1][1] = "RETURN"
        /\ Len(ls[last - 1]) >= 4
        /\ SubSeq(ls[last], 1, 2) = << "ORDER", "BY" >>
        /\ SubSeq(ls[last], Len(ls[last]) - 1, Len(ls[last])) = << "LIMIT", "50" >>
        /\ \A e \in read : e \in DOMAIN VariableOf /\ VariableOf[e] \in introduced

\* C28 witness: a bag holding only an unrecognized key gets the three-line query
\* over Journey alone
C28_Witness ==
  /\ FallbackReturned
  /\ DOMAIN entities = { "seat" }
  /\ Len(SplitLines(route.query)) = 3
  /\ SplitLines(route.query)[1] = << "MATCH", JourneyOnly >>

-----------------------------------------------------------------------------
(* Consistency of the inferred bounds (checked under SpecProcess)          *)

\* the quantities a ParameterBag bounds
Quantities == { "delay", "miles", "legs", "food_satisfaction" }

\* C29: in the ParameterBag process_query returns, whenever min_X and max_X are
\* both present the lower bound is not above the upper bound.
C29_BoundsConsistent ==
  (Processed_query /\ ~proc.raised) =>
    \A X \in Quantities :
      ({ "min_" \o X, "max_" \o X } \subseteq DOMAIN proc.parameters) =>
        proc.parameters["min_" \o X].n <= proc.parameters["max_" \o X].n

-----------------------------------------------------------------------------
(* Placeholders against the bound bag (checked under SpecRoute)            *)

\* C30: every placeholder `$x` of the query get_query_for_intent returns, canned
\* template or fallback, is a key of the bag it was given, which is the bag
\* run_query binds at execution (SlotKeys holds every name the query texts put
\* after `$`).
C30_PlaceholdersAreBound ==
  (Routed /\ route.query # NoQuery) =>
    \A x \in SlotKeys : References(route.query, x) => x \in DOMAIN entities

\* C30 witness: search_network with origin, dest, min_delay and an unrecognized
\* key; the first template is returned and binds exactly the three keys its
\* condition tests
C30_Witness ==
  /\ Routed
  /\ intent = "search_network"
  /\ DOMAIN entities = { "origin", "dest", "min_delay", "seat" }
  /\ route.specific
  /\ route.query = Templates_search_network[1].query
  /\ { x \in SlotKeys : References(route.query, x) } = { "origin", "dest", "min_delay" }
====
